---- MODULE Spec2Model ----
(***************************************************************************)
(* Model of the conversation extraction pipeline of Cursor-Recovery-Web   *)
(* (src/unnamed/part_000, the complete lib/conversation.ts):              *)
(*   - the table scanner of extractConversation (ItemTable, cursorDiskKV) *)
(*   - the conversation builder buildMessages with its two strategies     *)
(*     extractComposerConversation and extractAiServiceConversation.      *)
(* and of its callers (src/src/app/api/extract/route.ts): the POST route,  *)
(* the page's extractFile, handleFileChange and sortedMessages.            *)
(*                                                                         *)
(* JavaScript values are tagged records; strings are sequences of          *)
(* characters so that trim(), String(), template literals, split() and     *)
(* parseInt() are computed rather than assumed.                            *)
(***************************************************************************)
EXTENDS Integers, Sequences, FiniteSets, TLC

(***************************************************************************)
(* Bounds of the model.                                                    *)
(***************************************************************************)
\* Largest number of elements of raw["conversation"].
MaxConv == 3
\* Largest total number of elements of aiService.prompts and
\* aiService.generations together.
MaxAiItems == 4
\* Stand-in for the largest time value of an ECMAScript Date (8.64e15 ms):
\* new Date(n) is an Invalid Date for |n| > TimeClipMax.
TimeClipMax == 8

(***************************************************************************)
(* JavaScript strings and scalar values.                                   *)
(***************************************************************************)
\* White space as trim() sees it: the form feed stands for the characters
\* that trim() removes and JSON does not allow.
WhiteSpace == {" ", "\n", "\f"}

RECURSIVE TrimStart(_)
TrimStart(s) ==
  IF s = <<>> THEN s
  ELSE IF Head(s) \in WhiteSpace THEN TrimStart(Tail(s)) ELSE s

RECURSIVE TrimEnd(_)
TrimEnd(s) ==
  IF s = <<>> THEN s
  ELSE IF s[Len(s)] \in WhiteSpace THEN TrimEnd(SubSeq(s, 1, Len(s) - 1)) ELSE s

\* Trim with the trimming forgotten.
TrimNothing(s) == s

\* String.prototype.trim
Trim(s) == TrimEnd(TrimStart(s))

\* A JSON-decoded field value: t is the JavaScript type, n the number, s the
\* characters of a string.  "undefined" is an absent property.
Undefined == [t |-> "undefined", n |-> 0, s |-> <<>>]
JsNull == [t |-> "null", n |-> 0, s |-> <<>>]
JsNum(n) == [t |-> "number", n |-> n, s |-> <<>>]
JsStr(s) == [t |-> "string", n |-> 0, s |-> s]

\* a ?? b
Coalesce(a, b) == IF a.t \in {"undefined", "null"} THEN b ELSE a

DigitChars == <<"0", "1", "2", "3", "4", "5", "6", "7", "8", "9">>

\* Decimal rendering of a non-negative integer.
RECURSIVE Digits(_)
Digits(n) ==
  IF n < 10 THEN <<DigitChars[n + 1]>>
  ELSE Digits(n \div 10) \o <<DigitChars[(n % 10) + 1]>>

\* Number.prototype.toString for integers
NumberToString(n) == IF n < 0 THEN <<"-">> \o Digits(-n) ELSE Digits(n)

\* String(v)
ToStringJs(v) ==
  CASE v.t = "string" -> v.s
    [] v.t = "number" -> NumberToString(v.n)
    [] v.t = "array" -> <<>>
    [] v.t = "object" -> <<"[object Object]">>
    [] v.t = "null" -> <<"n", "u", "l", "l">>
    [] OTHER -> <<"u", "n", "d", "e", "f", "i", "n", "e", "d">>

RECURSIVE DigitPrefix(_)
DigitPrefix(s) ==
  IF s = <<>> \/ ~(\E d \in 0..9 : DigitChars[d + 1] = Head(s)) THEN <<>>
  ELSE <<Head(s)>> \o DigitPrefix(Tail(s))

RECURSIVE DigitsValue(_)
DigitsValue(s) ==
  IF s = <<>> THEN 0
  ELSE 10 * DigitsValue(SubSeq(s, 1, Len(s) - 1))
       + (CHOOSE d \in 0..9 : DigitChars[d + 1] = s[Len(s)])

\* parseInt(s, 10) for unsigned text: the value of the leading digits, NaN
\* when there are none.
ParseInt(s) ==
  LET d == DigitPrefix(s)
  IN  [nan |-> d = <<>>, n |-> DigitsValue(d)]

\* String.prototype.split(sep) for a one-character separator.
RECURSIVE Split(_, _)
Split(s, sep) ==
  IF \A i \in 1..Len(s) : s[i] # sep THEN <<s>>
  ELSE LET i == CHOOSE k \in 1..Len(s) : s[k] = sep /\ \A m \in 1..(k - 1) : s[m] # sep
       IN  <<SubSeq(s, 1, i - 1)>> \o Split(SubSeq(s, i + 1, Len(s)), sep)

(***************************************************************************)
(* Dates.  A timestamp is the optional ISO-8601 string of a message: has   *)
(* is FALSE for undefined, ms is the time value the string denotes.        *)
(***************************************************************************)
NoTimestamp == [has |-> FALSE, ms |-> 0]

\* new Date(n).toISOString(): throws RangeError on an Invalid Date, which
\* new Date(n) is when n is beyond the largest time value
ToISOString(n) ==
  IF -TimeClipMax <= n /\ n <= TimeClipMax THEN [threw |-> FALSE, ts |-> [has |-> TRUE, ms |-> n]]
  ELSE [threw |-> TRUE, ts |-> NoTimestamp]

\* new Date(timestamp).getTime()
GetTime(ts) == ts.ms

(***************************************************************************)
(* Elements of the source arrays and messages.                             *)
(***************************************************************************)
NoTiming == [t |-> "undefined", clientStartTime |-> Undefined, clientRpcSendTime |-> Undefined]

\* An object element with no property set.
EmptyItem ==
  [shape |-> "object", text |-> Undefined, type |-> Undefined, timingInfo |-> NoTiming,
   prompt |-> Undefined, response |-> Undefined, textDescription |-> Undefined,
   unixMs |-> Undefined]

\* Elements that are not plain objects.
NullItem == [EmptyItem EXCEPT !.shape = "null"]
ArrayItem == [EmptyItem EXCEPT !.shape = "array"]

\* typeof item !== 'object' || item === null
NotAnObject(item) == item.shape \notin {"object", "array"}

\* MessageId numbering the elements from 1.
MessageIdOneBased(kind, index) == <<kind, "-">> \o Digits(index + 1)

\* template literal `${kind}-${index}`
MessageId(kind, index) == <<kind, "-">> \o Digits(index)

\* timingInfo.<name>: property access on a non-object gives undefined
TimingProp(ti, name) == IF ti.t = "object" THEN ti[name] ELSE Undefined


(***************************************************************************)
(* extractComposerConversation: the forEach pass.                          *)
(***************************************************************************)
NoMessage ==
  [id |-> <<>>, role |-> "assistant", text |-> <<>>, timestamp |-> NoTimestamp,
   raw |-> NullItem]

Skip == [kind |-> "skip", msg |-> NoMessage]
Throw == [kind |-> "throw", msg |-> NoMessage]
Emit(m) == [kind |-> "emit", msg |-> m]

\* ComposerRole with the loose comparison item.type == 1.
ComposerRoleLooseEquality(item) ==
  IF \/ item.type.t = "number" /\ item.type.n = 1
     \/ item.type.t = "string" /\ item.type.s = <<"1">>
  THEN "user" ELSE "assistant"

\* item.type === 1 ? "user" : "assistant"
ComposerRole(item) ==
  IF item.type.t = "number" /\ item.type.n = 1 THEN "user" ELSE "assistant"

\* The timestamp of a composer element: [threw, ts].  if (timingInfo) holds
\* for objects and non-empty strings.
ComposerTimestamp(item) ==
  LET ti == item.timingInfo
      rawTs == Coalesce(TimingProp(ti, "clientStartTime"),
                        TimingProp(ti, "clientRpcSendTime"))
  IN  IF ti.t \in {"object", "string"} /\ rawTs.t = "number"
      THEN ToISOString(rawTs.n)
      ELSE [threw |-> FALSE, ts |-> NoTimestamp]

\* String(item.text ?? "")
ComposerText(item) == ToStringJs(Coalesce(item.text, JsStr(<<>>)))

\* One call of the forEach callback; index is the JavaScript array index.
ComposerElement(item, index) ==
  IF NotAnObject(item) THEN Skip
  ELSE IF Trim(ComposerText(item)) = <<>> THEN Skip
  ELSE LET iso == ComposerTimestamp(item)
       IN  IF iso.threw THEN Throw
           ELSE Emit([id |-> MessageId("composer", index),
                      role |-> ComposerRole(item),
                      text |-> ComposerText(item),
                      timestamp |-> iso.ts,
                      raw |-> item])

\* forEach over the elements from position i on: [threw, msgs].
RECURSIVE ComposerFrom(_, _)
ComposerFrom(conv, i) ==
  IF i > Len(conv) THEN [threw |-> FALSE, msgs |-> <<>>]
  ELSE LET r == ComposerElement(conv[i], i - 1)
       IN  IF r.kind = "throw" THEN [threw |-> TRUE, msgs |-> <<>>]
           ELSE LET rest == ComposerFrom(conv, i + 1)
                IN  [threw |-> rest.threw,
                     msgs |-> IF rest.threw THEN <<>>
                              ELSE (IF r.kind = "emit" THEN <<r.msg>> ELSE <<>>) \o rest.msgs]

\* The messages pushed before the sort; value is the decoded raw["conversation"].
ComposerMessages(value) ==
  IF value.t # "array" THEN [threw |-> FALSE, msgs |-> <<>>]
  ELSE ComposerFrom(value.items, 1)

(***************************************************************************)
(* extractAiServiceConversation: extraction of prompts and generations.    *)
(***************************************************************************)
\* typeof item.unixMs === 'number' ? item.unixMs : undefined, then
\* unixMs ? new Date(unixMs).toISOString() : undefined
UnixMsTimestamp(item) ==
  IF item.unixMs.t = "number" /\ item.unixMs.n # 0
  THEN ToISOString(item.unixMs.n)
  ELSE [threw |-> FALSE, ts |-> NoTimestamp]

\* String(item.prompt ?? item.text ?? "")
PromptText(item) ==
  ToStringJs(Coalesce(Coalesce(item.prompt, item.text), JsStr(<<>>)))

\* String(item.textDescription ?? item.response ?? item.text ?? "")
GenerationText(item) ==
  ToStringJs(Coalesce(Coalesce(Coalesce(item.textDescription, item.response), item.text),
                      JsStr(<<>>)))

PromptElement(item, index) ==
  IF NotAnObject(item) THEN Skip
  ELSE IF Trim(PromptText(item)) = <<>> THEN Skip
  ELSE LET iso == UnixMsTimestamp(item)
       IN  IF iso.threw THEN Throw
           ELSE Emit([id |-> MessageId("prompt", index),
                      role |-> "user",
                      text |-> PromptText(item),
                      timestamp |-> iso.ts,
                      raw |-> item])

GenerationElement(item, index) ==
  IF NotAnObject(item) THEN Skip
  ELSE IF Trim(GenerationText(item)) = <<>> THEN Skip
  ELSE LET iso == UnixMsTimestamp(item)
       IN  IF iso.threw THEN Throw
           ELSE Emit([id |-> MessageId("generation", index),
                      role |-> "assistant",
                      text |-> GenerationText(item),
                      timestamp |-> iso.ts,
                      raw |-> item])

RECURSIVE AiFrom(_, _, _)
AiFrom(kind, arr, i) ==
  IF i > Len(arr) THEN [threw |-> FALSE, msgs |-> <<>>]
  ELSE LET r == IF kind = "prompt" THEN PromptElement(arr[i], i - 1)
                ELSE GenerationElement(arr[i], i - 1)
       IN  IF r.kind = "throw" THEN [threw |-> TRUE, msgs |-> <<>>]
           ELSE LET rest == AiFrom(kind, arr, i + 1)
                IN  [threw |-> rest.threw,
                     msgs |-> IF rest.threw THEN <<>>
                              ELSE (IF r.kind = "emit" THEN <<r.msg>> ELSE <<>>) \o rest.msgs]

\* Step 1 and Step 2: value is raw["aiService.prompts"] or
\* raw["aiService.generations"].
AiMessages(kind, value) ==
  IF value.t # "array" THEN [threw |-> FALSE, msgs |-> <<>>]
  ELSE AiFrom(kind, value.items, 1)

\* Step 3, the callback for the prompt message at position i (1-based) of
\* promptMessages: [threw, msg].
InferOne(promptMsg, i, generationMessages) ==
  IF ~promptMsg.timestamp.has /\ (i - 1) < Len(generationMessages)
  THEN LET correspondingGeneration == generationMessages[i]
       IN  IF correspondingGeneration.timestamp.has
           THEN LET iso == ToISOString(GetTime(correspondingGeneration.timestamp) - 1)
                IN  [threw |-> iso.threw,
                     msg |-> [promptMsg EXCEPT !.timestamp = iso.ts]]
           ELSE [threw |-> FALSE, msg |-> promptMsg]
  ELSE [threw |-> FALSE, msg |-> promptMsg]

\* Step 3 over all prompt messages: [threw, msgs].
InferTimestamps(promptMessages, generationMessages) ==
  LET each == [i \in 1..Len(promptMessages) |->
                 InferOne(promptMessages[i], i, generationMessages)]
  IN  IF \E i \in 1..Len(promptMessages) : each[i].threw
      THEN [threw |-> TRUE, msgs |-> <<>>]
      ELSE [threw |-> FALSE, msgs |-> [i \in 1..Len(promptMessages) |-> each[i].msg]]

(***************************************************************************)
(* The comparators and Array.prototype.sort.                               *)
(***************************************************************************)
\* The comparator of extractComposerConversation.
ComposerCompare(a, b) ==
  IF a.timestamp.has /\ b.timestamp.has
  THEN GetTime(a.timestamp) - GetTime(b.timestamp)
  ELSE 0

\* const [aType, aIndexStr] = a.id.split('-')
IdType(id) == Split(id, "-")[1]
IdIndex(id) ==
  LET parts == Split(id, "-")
  IN  ParseInt(IF Len(parts) >= 2 THEN parts[2] ELSE <<>>)

\* a.localeCompare(b) on message ids: the sign of the comparison, character
\* by character, in collation order (punctuation before digits before
\* letters; a digit string is text, not a number); the kind of an id is
\* ranked by its spelling (composer < generation < prompt).
RECURSIVE LocaleCompare(_, _)
LocaleCompare(a, b) ==
  LET rank(c) == IF c = "-" THEN 0
                 ELSE IF \E d \in 0..9 : DigitChars[d + 1] = c
                      THEN 1 + (CHOOSE d \in 0..9 : DigitChars[d + 1] = c)
                 ELSE IF c = "composer" THEN 11
                 ELSE IF c = "generation" THEN 12
                 ELSE 13
  IN  IF a = <<>> /\ b = <<>> THEN 0
      ELSE IF a = <<>> THEN -1
      ELSE IF b = <<>> THEN 1
      ELSE IF rank(Head(a)) < rank(Head(b)) THEN -1
      ELSE IF rank(Head(a)) > rank(Head(b)) THEN 1
      ELSE LocaleCompare(Tail(a), Tail(b))

\* AiCompareIds comparing the ids as strings.
AiCompareIdsAsStrings(a, b) == LocaleCompare(a.id, b.id)

\* AiCompareIds comparing the indexes whatever the kinds.
AiCompareIdsKindBlind(a, b) ==
  IF IdIndex(a.id).nan \/ IdIndex(b.id).nan THEN 0
  ELSE IdIndex(a.id).n - IdIndex(b.id).n

\* Rule 3 of the aiService comparator.  A NaN result counts as 0 in sort.
AiCompareIds(a, b) ==
  IF IdType(a.id) = IdType(b.id)
  THEN IF IdIndex(a.id).nan \/ IdIndex(b.id).nan THEN 0
       ELSE IdIndex(a.id).n - IdIndex(b.id).n
  ELSE IF IdType(a.id) = <<"prompt">> THEN -1 ELSE 1

\* AiCompare with the signs of the role tie-break exchanged.
AiCompareAssistantFirst(a, b) ==
  LET hasA == a.timestamp.has
      hasB == b.timestamp.has
      timeA == GetTime(a.timestamp)
      timeB == GetTime(b.timestamp)
  IN  IF hasA /\ hasB /\ timeA # timeB THEN timeA - timeB
      ELSE IF hasA /\ hasB /\ a.role = "user" /\ b.role = "assistant" THEN 1
      ELSE IF hasA /\ hasB /\ a.role = "assistant" /\ b.role = "user" THEN -1
      ELSE IF hasA /\ ~hasB THEN -1
      ELSE IF ~hasA /\ hasB THEN 1
      ELSE AiCompareIds(a, b)

\* AiCompare without Rule 2 (timestamp presence beats absence).
AiCompareNoPresenceRule(a, b) ==
  LET hasA == a.timestamp.has
      hasB == b.timestamp.has
      timeA == GetTime(a.timestamp)
      timeB == GetTime(b.timestamp)
  IN  IF hasA /\ hasB /\ timeA # timeB THEN timeA - timeB
      ELSE IF hasA /\ hasB /\ a.role = "user" /\ b.role = "assistant" THEN -1
      ELSE IF hasA /\ hasB /\ a.role = "assistant" /\ b.role = "user" THEN 1
      ELSE AiCompareIds(a, b)

\* The comparator of extractAiServiceConversation.
AiCompare(a, b) ==
  LET hasA == a.timestamp.has
      hasB == b.timestamp.has
      timeA == GetTime(a.timestamp)
      timeB == GetTime(b.timestamp)
  IN  IF hasA /\ hasB /\ timeA # timeB THEN timeA - timeB
      ELSE IF hasA /\ hasB /\ a.role = "user" /\ b.role = "assistant" THEN -1
      ELSE IF hasA /\ hasB /\ a.role = "assistant" /\ b.role = "user" THEN 1
      ELSE IF hasA /\ ~hasB THEN -1
      ELSE IF ~hasA /\ hasB THEN 1
      ELSE AiCompareIds(a, b)

\* The comparator of the page's sortedMessages.
DisplayCompare(a, b) ==
  IF a.timestamp.has /\ b.timestamp.has
  THEN IF GetTime(a.timestamp) # GetTime(b.timestamp)
       THEN GetTime(a.timestamp) - GetTime(b.timestamp)
       ELSE IF a.role = "user" /\ b.role = "assistant" THEN -1
       ELSE IF a.role = "assistant" /\ b.role = "user" THEN 1
       ELSE LocaleCompare(a.id, b.id)
  ELSE IF a.timestamp.has /\ ~b.timestamp.has THEN -1
  ELSE IF ~a.timestamp.has /\ b.timestamp.has THEN 1
  ELSE LocaleCompare(a.id, b.id)

Compare(strategy, a, b) ==
  IF strategy = "composer" THEN ComposerCompare(a, b)
  ELSE IF strategy = "aiService" THEN AiCompare(a, b)
  ELSE DisplayCompare(a, b)

\* The arrangements an insertion sort (linear or binary) can leave the first
\* n elements in: each element is put after an element it does not precede
\* and before one it precedes.  With a consistent comparator there is
\* exactly one, the stable sort.
RECURSIVE SortedPrefixes(_, _, _)
SortedPrefixes(strategy, msgs, n) ==
  IF n = 0 THEN {<<>>}
  ELSE UNION {{SubSeq(s, 1, j) \o <<msgs[n]>> \o SubSeq(s, j + 1, Len(s)) :
                 j \in {k \in 0..Len(s) :
                          /\ (k = 0 \/ Compare(strategy, msgs[n], s[k]) >= 0)
                          /\ (k = Len(s) \/ Compare(strategy, msgs[n], s[k + 1]) < 0)}} :
                s \in SortedPrefixes(strategy, msgs, n - 1)}

\* The arrangements of the elements of msgs.
Arrangements(msgs) ==
  {[i \in 1..Len(msgs) |-> msgs[f[i]]] :
     f \in {g \in [1..Len(msgs) -> 1..Len(msgs)] :
              \A i \in 1..Len(msgs) : \A j \in 1..Len(msgs) : g[i] = g[j] => i = j}}

\* The comparator is a consistent comparator for the elements of msgs
\* (ECMAScript, Array.prototype.sort): a = a, a < b is b > a, and the
\* relations = and < are transitive (then > is transitive as well).
ConsistentComparator(strategy, msgs) ==
  LET I == 1..Len(msgs)
      lt == {p \in I \X I : Compare(strategy, msgs[p[1]], msgs[p[2]]) < 0}
      gt == {p \in I \X I : Compare(strategy, msgs[p[1]], msgs[p[2]]) > 0}
      eq == (I \X I) \ (lt \cup gt)
  IN  /\ \A i \in I : <<i, i>> \in eq
      /\ \A p \in lt : <<p[2], p[1]>> \in gt
      /\ \A p \in gt : <<p[2], p[1]>> \in lt
      /\ \A p \in eq : \A q \in eq : p[2] = q[1] => <<p[1], q[2]>> \in eq
      /\ \A p \in lt : \A q \in lt : p[2] = q[1] => <<p[1], q[2]>> \in lt

\* SortOutcomes losing the first element of the arrangement.
SortOutcomesLosingOne(strategy, msgs) ==
  {IF s = <<>> THEN s ELSE Tail(s) : s \in SortedPrefixes(strategy, msgs, Len(msgs))}

\* msgs.sort(comparator): the sorted arrangement when the comparator is
\* consistent for the elements; otherwise the order is left to the
\* implementation and the result is some arrangement of the elements.
SortOutcomes(strategy, msgs) ==
  IF ConsistentComparator(strategy, msgs)
  THEN SortedPrefixes(strategy, msgs, Len(msgs))
  ELSE Arrangements(msgs)

\* The page's sortedMessages for result.messages = msgs: the lists the memo
\* can hold.
sortedMessages(msgs) ==
  IF Len(msgs) = 0 THEN {<<>>} ELSE SortOutcomes("display", msgs)

(***************************************************************************)
(* Decoded values of the raw map.                                          *)
(***************************************************************************)
\* raw[key] of a missing key
\* t is the JavaScript type; items the elements of an array, props the
\* properties of an object, s the characters of a string, n a number.
UndefinedValue == [t |-> "undefined", items |-> <<>>, props |-> <<>>, s |-> <<>>, n |-> 0]
NullValue == [UndefinedValue EXCEPT !.t = "null"]
StringValue(s) == [UndefinedValue EXCEPT !.t = "string", !.s = s]
NumberValue(n) == [UndefinedValue EXCEPT !.t = "number", !.n = n]
ArrayValue(items) == [UndefinedValue EXCEPT !.t = "array", !.items = items]
ObjectValue(props) == [UndefinedValue EXCEPT !.t = "object", !.props = props]

KeyConversation == <<"c", "o", "n", "v", "e", "r", "s", "a", "t", "i", "o", "n">>
KeyPrompts == <<"a", "i", "S", "e", "r", "v", "i", "c", "e", ".", "p", "r", "o", "m", "p", "t", "s">>
KeyGenerations == <<"a", "i", "S", "e", "r", "v", "i", "c", "e", ".", "g", "e", "n", "e", "r", "a", "t", "i", "o", "n", "s">>
KeyComposerData == <<"c", "o", "m", "p", "o", "s", "e", "r", ".", "c", "o", "m", "p", "o", "s", "e", "r", "D", "a", "t", "a">>

\* raw[key]
RawGet(r, key) == IF key \in DOMAIN r THEN r[key] ELSE UndefinedValue

SeqsUpTo(S, n) == UNION {[1..k -> S] : k \in 0..n}

\* The pairs of a sequence over S and one over T of at most n elements together.
SeqPairsUpTo(S, T, n) ==
  UNION {{<<x, y>> : x \in [1..a -> S], y \in [1..(k - a) -> T]} :
           <<a, k>> \in {ak \in (0..n) \X (0..n) : ak[1] <= ak[2]}}

(***************************************************************************)
(* Keys, the ItemTable key filter and SQL LIKE.                            *)
(***************************************************************************)
\* The lower-case form of a character.
LowerChar(c) ==
  LET UpperChars == <<"A", "B", "C", "D", "E", "F", "G", "H", "I", "J", "K", "L", "M",
                      "N", "O", "P", "Q", "R", "S", "T", "U", "V", "W", "X", "Y", "Z">>
      LowerChars == <<"a", "b", "c", "d", "e", "f", "g", "h", "i", "j", "k", "l", "m",
                      "n", "o", "p", "q", "r", "s", "t", "u", "v", "w", "x", "y", "z">>
  IN  IF \E i \in 1..26 : UpperChars[i] = c
      THEN LowerChars[CHOOSE i \in 1..26 : UpperChars[i] = c]
      ELSE c

\* String.prototype.toLowerCase
ToLowerCase(s) == [i \in 1..Len(s) |-> LowerChar(s[i])]

\* String.prototype.includes
Includes(s, sub) ==
  \E i \in 0..(Len(s) - Len(sub)) : SubSeq(s, i + 1, i + Len(sub)) = sub

CONVERSATION_KEYS ==
  << <<"a", "i", "S", "e", "r", "v", "i", "c", "e", ".", "g", "e", "n", "e", "r", "a", "t", "i", "o", "n", "s">>,
     <<"a", "i", "S", "e", "r", "v", "i", "c", "e", ".", "p", "r", "o", "m", "p", "t", "s">>,
     <<"c", "o", "m", "p", "o", "s", "e", "r", ".", "c", "o", "m", "p", "o", "s", "e", "r", "D", "a", "t", "a">>,
     <<"c", "o", "m", "p", "o", "s", "e", "r", "D", "a", "t", "a">>,
     <<"c", "h", "a", "t">>,
     <<"c", "o", "n", "v", "e", "r", "s", "a", "t", "i", "o", "n">> >>

\* IsConversationKey comparing the key as stored, not lower-cased.
IsConversationKeyCaseSensitive(key) ==
  \E i \in 1..Len(CONVERSATION_KEYS) : Includes(key, CONVERSATION_KEYS[i])

\* CONVERSATION_KEYS.some((convKey) => keyLower.includes(convKey.toLowerCase()))
IsConversationKey(key) ==
  \E i \in 1..Len(CONVERSATION_KEYS) :
    Includes(ToLowerCase(key), ToLowerCase(CONVERSATION_KEYS[i]))

\* const patterns = ["aiService.%", "composer%", "%chat%", "%conversation%"]
Patterns ==
  << <<"a", "i", "S", "e", "r", "v", "i", "c", "e", ".", "%">>,
     <<"c", "o", "m", "p", "o", "s", "e", "r", "%">>,
     <<"%", "c", "h", "a", "t", "%">>,
     <<"%", "c", "o", "n", "v", "e", "r", "s", "a", "t", "i", "o", "n", "%">> >>

\* key LIKE pattern in SQLite: % is any run of characters, _ any one
\* character, letters compare without case.
RECURSIVE Like(_, _)
Like(pattern, key) ==
  IF pattern = <<>> THEN key = <<>>
  ELSE IF Head(pattern) = "%"
       THEN \E k \in 0..Len(key) : Like(Tail(pattern), SubSeq(key, k + 1, Len(key)))
  ELSE IF key = <<>> THEN FALSE
  ELSE /\ (Head(pattern) = "_" \/ LowerChar(Head(pattern)) = LowerChar(Head(key)))
       /\ Like(Tail(pattern), Tail(key))

(***************************************************************************)
(* JSON text.  JSON.parse is the inverse of the writer below on the values *)
(* of JsonUniverse; any other text does not parse.                         *)
(***************************************************************************)
Quote(s) == <<"\"">> \o s \o <<"\"">>

ScalarJson(v) ==
  CASE v.t = "string" -> Quote(v.s)
    [] v.t = "number" -> NumberToString(v.n)
    [] v.t = "array" -> <<"[", "]">>
    [] v.t = "object" -> <<"{", "}">>
    [] OTHER -> <<"n", "u", "l", "l">>

RECURSIVE JoinComma(_)
JoinComma(parts) ==
  IF parts = <<>> THEN <<>>
  ELSE IF Len(parts) = 1 THEN parts[1]
  ELSE parts[1] \o <<",">> \o JoinComma(Tail(parts))

\* "name":value when the property is present
Member(name, v) ==
  IF v.t = "undefined" THEN <<>> ELSE <<Quote(name) \o <<":">> \o ScalarJson(v)>>

TimingJson(ti) ==
  IF ti.t = "undefined" THEN <<>>
  ELSE IF ti.t = "string" THEN <<Quote(<<"t", "i", "m", "i", "n", "g", "I", "n", "f", "o">>) \o <<":">> \o Quote(<<"s">>)>>
  ELSE <<Quote(<<"t", "i", "m", "i", "n", "g", "I", "n", "f", "o">>) \o <<":", "{">>
         \o JoinComma(Member(<<"c", "l", "i", "e", "n", "t", "S", "t", "a", "r", "t", "T", "i", "m", "e">>, ti.clientStartTime)
                      \o Member(<<"c", "l", "i", "e", "n", "t", "R", "p", "c", "S", "e", "n", "d", "T", "i", "m", "e">>, ti.clientRpcSendTime))
         \o <<"}">>>>

ItemJson(item) ==
  CASE item.shape = "null" -> <<"n", "u", "l", "l">>
    [] item.shape = "number" -> <<"0">>
    [] item.shape = "array" -> <<"[", "]">>
    [] OTHER ->
         <<"{">>
         \o JoinComma(Member(<<"t", "e", "x", "t">>, item.text)
                      \o Member(<<"t", "y", "p", "e">>, item.type)
                      \o TimingJson(item.timingInfo)
                      \o Member(<<"p", "r", "o", "m", "p", "t">>, item.prompt)
                      \o Member(<<"r", "e", "s", "p", "o", "n", "s", "e">>, item.response)
                      \o Member(<<"t", "e", "x", "t", "D", "e", "s", "c", "r", "i", "p", "t", "i", "o", "n">>, item.textDescription)
                      \o Member(<<"u", "n", "i", "x", "M", "s">>, item.unixMs))
         \o <<"}">>

\* JSON text of a decoded value (objects hold at most the property
\* "conversation").
RECURSIVE ValueJson(_)
ValueJson(v) ==
  CASE v.t = "array" ->
         <<"[">> \o JoinComma([i \in 1..Len(v.items) |-> ItemJson(v.items[i])]) \o <<"]">>
    [] v.t = "object" ->
         IF KeyConversation \in DOMAIN v.props
         THEN <<"{">> \o Quote(KeyConversation) \o <<":">>
              \o ValueJson(v.props[KeyConversation]) \o <<"}">>
         ELSE <<"{", "}">>
    [] v.t = "string" -> Quote(v.s)
    [] v.t = "number" -> NumberToString(v.n)
    [] OTHER -> <<"n", "u", "l", "l">>

\* The arrays stored in the model's databases: empty or of one element.
StoredArrays ==
  {ArrayValue(<<>>)} \cup {ArrayValue(<<item>>) : item \in { [EmptyItem EXCEPT !.text = JsStr(<<"a">>), !.type = JsNum(1)],
    [EmptyItem EXCEPT !.text = JsStr(<<"b">>)],
    [EmptyItem EXCEPT !.text = JsStr(<<" ">>)],
    [EmptyItem EXCEPT !.text = JsStr(<<"e">>),
                      !.timingInfo = [NoTiming EXCEPT !.t = "object",
                                                      !.clientStartTime = JsNum(TimeClipMax + 1)]],
    ArrayItem,
    EmptyItem }}

\* The structures JSON.parse can return in the model.
JsonUniverse ==
  StoredArrays
  \cup {ObjectValue(<<>>)}
  \cup {ObjectValue([k \in {KeyConversation} |-> c]) : c \in StoredArrays \cup {NullValue}}

\* The JSON text of each of them.
JsonTexts == [v \in JsonUniverse |-> ValueJson(v)]

\* The text without the white space JSON allows between its tokens
\* (inString: the scan is inside a string literal; the strings of the model
\* hold no escape).
RECURSIVE StripJsonWhiteSpace(_, _)
StripJsonWhiteSpace(text, inString) ==
  IF text = <<>> THEN <<>>
  ELSE IF Head(text) = "\"" THEN <<Head(text)>> \o StripJsonWhiteSpace(Tail(text), ~inString)
  ELSE IF ~inString /\ Head(text) \in {" ", "\n"} THEN StripJsonWhiteSpace(Tail(text), inString)
  ELSE <<Head(text)>> \o StripJsonWhiteSpace(Tail(text), inString)

\* JSON.parse(text): [ok, value]; ok is FALSE when it throws SyntaxError.
JsonParse(text) ==
  LET body == StripJsonWhiteSpace(text, FALSE)
  IN  IF \E v \in JsonUniverse : JsonTexts[v] = body
      THEN [ok |-> TRUE, value |-> CHOOSE v \in JsonUniverse : JsonTexts[v] = body]
      ELSE [ok |-> FALSE, value |-> UndefinedValue]

StartsWith(s, c) == Len(s) > 0 /\ s[1] = c
EndsWith(s, c) == Len(s) > 0 /\ s[Len(s)] = c

\* tryParseJson returning the trimmed text when the text does not parse.
tryParseJsonTrimmed(value) ==
  LET trimmed == Trim(value)
  IN  IF \/ StartsWith(trimmed, "{") /\ EndsWith(trimmed, "}")
         \/ StartsWith(trimmed, "[") /\ EndsWith(trimmed, "]")
      THEN LET parsed == JsonParse(value)
           IN  IF parsed.ok THEN parsed.value ELSE StringValue(trimmed)
      ELSE StringValue(value)

tryParseJson(value) ==
  LET trimmed == Trim(value)
  IN  IF \/ StartsWith(trimmed, "{") /\ EndsWith(trimmed, "}")
         \/ StartsWith(trimmed, "[") /\ EndsWith(trimmed, "]")
      THEN LET parsed == JsonParse(value)
           IN  IF parsed.ok THEN parsed.value ELSE StringValue(value)
      ELSE StringValue(value)

(***************************************************************************)
(* Stored cells and their decoding.                                        *)
(***************************************************************************)
\* A cell as sql.js returns it: text, a Uint8Array (blob) holding the UTF-8
\* bytes of s, a number or null.
TextCell(s) == [t |-> "text", s |-> s, n |-> 0]
BlobCell(s) == [t |-> "blob", s |-> s, n |-> 0]
NumberCell(n) == [t |-> "number", s |-> <<>>, n |-> n]
NullCell == [t |-> "null", s |-> <<>>, n |-> 0]

\* decodeValue ending, like decodeKey, with return String(value).
decodeValueStringifying(value) ==
  IF value.t \in {"null", "undefined"} THEN NullValue
  ELSE IF value.t \in {"blob", "text", "string"} THEN tryParseJson(value.s)
  ELSE StringValue(ToStringJs(value))

\* The argument is a stored cell or any other JavaScript value (t is
\* "string", "array", "object" or "undefined" for those).
decodeValue(value) ==
  IF value.t \in {"null", "undefined"} THEN NullValue
  ELSE IF value.t \in {"blob", "text", "string"} THEN tryParseJson(value.s)
  ELSE IF value.t = "number" THEN NumberValue(value.n)
  ELSE value

decodeKey(value) ==
  IF value.t \in {"text", "blob"} THEN value.s
  ELSE IF value.t = "number" THEN NumberToString(value.n)
  ELSE <<"n", "u", "l", "l">>

(***************************************************************************)
(* The database and its three queries.                                     *)
(***************************************************************************)
ItemTableName == "ItemTable"
DiskKVName == "cursorDiskKV"

\* The rows of a table of the database; none when the table does not exist.
TableRows(database, table) ==
  IF table = ItemTableName THEN database.itemRows ELSE database.kvRows

\* results.push([decodeKey(row[0]), decodeValue(row[1])])
DecodeRows(rows) ==
  [i \in 1..Len(rows) |-> [key |-> decodeKey(rows[i].key), value |-> decodeValue(rows[i].value)]]

\* listTables answering, from its catch block, the two tables the scan knows.
listTablesAssumingDefaults(database) ==
  IF "listTables" \in database.failing THEN <<ItemTableName, DiskKVName>>
  ELSE database.tables

listTables(database) ==
  IF "listTables" \in database.failing THEN <<>> ELSE database.tables

\* The while (stmt.step()) loop over the rows the statement yields: when the
\* read fails, prepare, bind, step or get throws after failAfter rows were
\* pushed to results (after all of them when there are fewer).
ReadRows(rows, fails, failAfter) ==
  LET pushed == IF fails /\ failAfter < Len(rows) THEN failAfter ELSE Len(rows)
  IN  [threw |-> fails, results |-> DecodeRows(SubSeq(rows, 1, pushed))]

\* The statements after one call of selectKeyValue or
\* selectKeyValueWithPattern: db.prepare() returns a statement unless it is
\* prepare that throws; stmt.free() is the statement after the loop, reached
\* when nothing threw.
StatementsAfter(st, fails, prepareThrew) ==
  [prepared |-> st.prepared + (IF prepareThrew THEN 0 ELSE 1),
   freed |-> st.freed + (IF fails THEN 0 ELSE 1)]

selectKeyValue(database, table) ==
  LET read == ReadRows(TableRows(database, table), table \in database.failing,
                       database.failAfter)
  IN  IF read.threw THEN <<>> ELSE read.results

RECURSIVE SelectWhere(_, _)
SelectWhere(rows, pattern) ==
  IF rows = <<>> THEN <<>>
  ELSE (IF Like(pattern, decodeKey(Head(rows).key)) THEN <<Head(rows)>> ELSE <<>>)
       \o SelectWhere(Tail(rows), pattern)

\* selectKeyValueWithPattern returning from its catch block what the loop had
\* pushed.
selectKeyValueWithPatternKeepsPartial(database, table, pattern) ==
  ReadRows(SelectWhere(TableRows(database, table), pattern),
           pattern \in database.failingPatterns, database.failAfter).results

selectKeyValueWithPattern(database, table, pattern) ==
  LET read == ReadRows(SelectWhere(TableRows(database, table), pattern),
                       pattern \in database.failingPatterns, database.failAfter)
  IN  IF read.threw THEN <<>> ELSE read.results

\* tables.includes(name)
TablesInclude(tableList, name) == \E i \in 1..Len(tableList) : tableList[i] = name

(***************************************************************************)
(* extractConversation: merging rows into the raw map.                     *)
(***************************************************************************)
\* raw[key] = value
RawSet(r, key, value) ==
  [k \in DOMAIN r \cup {key} |-> IF k = key THEN value ELSE r[k]]

\* ItemTableRow flattening only while raw["conversation"] is unset.
ItemTableRowFlattenIfUnset(r, row) ==
  LET kept == IF IsConversationKey(row.key) THEN RawSet(r, row.key, row.value) ELSE r
  IN  IF /\ row.key = KeyComposerData
         /\ row.value.t \in {"object", "array"}
         /\ KeyConversation \in DOMAIN row.value.props
         /\ RawGet(kept, KeyConversation).t = "undefined"
      THEN RawSet(kept, KeyConversation, row.value.props[KeyConversation])
      ELSE kept

\* The body of the ItemTable loop for one row.
ItemTableRow(r, row) ==
  LET kept == IF IsConversationKey(row.key) THEN RawSet(r, row.key, row.value) ELSE r
  IN  IF /\ row.key = KeyComposerData
         /\ row.value.t \in {"object", "array"}
         /\ KeyConversation \in DOMAIN row.value.props
      THEN RawSet(kept, KeyConversation, row.value.props[KeyConversation])
      ELSE kept

RECURSIVE ItemTableLoop(_, _)
ItemTableLoop(r, rows) ==
  IF rows = <<>> THEN r ELSE ItemTableLoop(ItemTableRow(r, Head(rows)), Tail(rows))

\* KeyIsUnset with the test lost: every row is written.
KeyIsUnsetAlways(r, key) == key = key

\* raw[key] === undefined
KeyIsUnset(r, key) == RawGet(r, key).t = "undefined"

\* The cursorDiskKV loop over the rows of one pattern.
RECURSIVE DiskKVLoop(_, _)
DiskKVLoop(r, rows) ==
  IF rows = <<>> THEN r
  ELSE DiskKVLoop(IF KeyIsUnset(r, Head(rows).key)
                  THEN RawSet(r, Head(rows).key, Head(rows).value)
                  ELSE r,
                  Tail(rows))

(***************************************************************************)
(* Inputs of the builder: the element shapes the source arrays are drawn   *)
(* from.                                                                   *)
(***************************************************************************)
Timing(start, send) ==
  [t |-> "object", clientStartTime |-> start, clientRpcSendTime |-> send]

ComposerItems ==
  { NullItem,
    ArrayItem,
    [EmptyItem EXCEPT !.text = JsStr(<<" ", "\n">>), !.type = JsNum(1)],
    [EmptyItem EXCEPT !.text = JsStr(<<"a">>), !.type = JsNum(1),
                      !.timingInfo = [NoTiming EXCEPT !.t = "string"]],
    [EmptyItem EXCEPT !.text = JsStr(<<"b">>), !.type = JsNum(2),
                      !.timingInfo = Timing(JsNum(2), Undefined)],
    [EmptyItem EXCEPT !.text = JsStr(<<" ", "c">>),
                      !.timingInfo = Timing(JsNum(1), JsNum(5))],
    [EmptyItem EXCEPT !.text = JsStr(<<"d">>), !.type = JsStr(<<"1">>),
                      !.timingInfo = Timing(JsStr(<<"x">>), JsNum(1))],
    [EmptyItem EXCEPT !.text = JsNum(7), !.type = JsNum(1),
                      !.timingInfo = Timing(JsNull, JsNum(2))],
    [EmptyItem EXCEPT !.text = JsStr(<<"e">>),
                      !.timingInfo = Timing(JsNum(TimeClipMax + 1), Undefined)] }

PromptItems ==
  { NullItem,
    [EmptyItem EXCEPT !.prompt = JsStr(<<>>), !.text = JsStr(<<"a">>)],
    [EmptyItem EXCEPT !.prompt = JsStr(<<"p">>), !.unixMs = JsStr(<<"5">>)],
    [EmptyItem EXCEPT !.text = JsStr(<<"q">>), !.unixMs = JsNum(2)],
    [EmptyItem EXCEPT !.prompt = JsStr(<<"t">>), !.unixMs = JsNum(TimeClipMax + 1)] }

GenerationItems ==
  { [EmptyItem EXCEPT !.response = JsStr(<<" ">>), !.unixMs = JsNum(1)],
    [EmptyItem EXCEPT !.response = JsStr(<<"x">>), !.unixMs = JsNum(2)],
    [EmptyItem EXCEPT !.textDescription = JsStr(<<"y">>), !.response = JsStr(<<"z">>),
                      !.unixMs = JsNum(3)],
    [EmptyItem EXCEPT !.text = JsStr(<<"w">>), !.unixMs = JsNum(0)],
    [EmptyItem EXCEPT !.response = JsStr(<<"v">>), !.unixMs = JsNum(-TimeClipMax)] }

\* raw["conversation"]: every array of composer elements, or no array.
ConversationValues ==
  {ArrayValue(a) : a \in SeqsUpTo(ComposerItems, MaxConv)}
  \cup {UndefinedValue, StringValue(<<"h", "i">>)}
  \* two elements without a timestamp, then two with timestamps 2 and 1
  \cup {ArrayValue(<<[EmptyItem EXCEPT !.text = JsStr(<<"a">>)],
                      [EmptyItem EXCEPT !.text = JsStr(<<"a">>)],
                      [EmptyItem EXCEPT !.text = JsStr(<<"b">>),
                                        !.timingInfo = Timing(JsNum(2), Undefined)],
                      [EmptyItem EXCEPT !.text = JsStr(<<"c">>),
                                        !.timingInfo = Timing(JsNum(1), Undefined)]>>)}

\* Conversations from which the composer strategy emits nothing.
BarrenConversationValues ==
  {UndefinedValue, ArrayValue(<<[EmptyItem EXCEPT !.text = JsStr(<<" ">>)]>>)}

\* (raw["aiService.prompts"], raw["aiService.generations"])
AiValuePairs ==
  {<<ArrayValue(p), ArrayValue(g)>> :
     <<p, g>> \in SeqPairsUpTo(PromptItems, GenerationItems, MaxAiItems)}
  \cup {<<NullValue, ArrayValue(<<[EmptyItem EXCEPT !.response = JsStr(<<"x">>)]>>)>>}
  \* prompts at the indexes 2 and 10 of an array of eleven elements
  \cup {<<ArrayValue([i \in 1..11 |->
                        IF i \in {3, 11} THEN [EmptyItem EXCEPT !.prompt = JsStr(<<"p">>)]
                        ELSE NullItem]),
          ArrayValue(<<[EmptyItem EXCEPT !.text = JsStr(<<"w">>), !.unixMs = JsNum(0)]>>)>>}

FewAiValuePairs ==
  { <<UndefinedValue, UndefinedValue>>,
    <<ArrayValue(<<[EmptyItem EXCEPT !.prompt = JsStr(<<"p">>), !.unixMs = JsNum(2)]>>),
      ArrayValue(<<[EmptyItem EXCEPT !.response = JsStr(<<"x">>), !.unixMs = JsNum(2)]>>)>> }

\* The raw map holding the three values; an undefined value is a missing key.
MakeRaw(conv, prompts, gens) ==
  LET keys == {k \in {KeyConversation, KeyPrompts, KeyGenerations} :
                 (k = KeyConversation /\ conv.t # "undefined")
                 \/ (k = KeyPrompts /\ prompts.t # "undefined")
                 \/ (k = KeyGenerations /\ gens.t # "undefined")}
  IN  [k \in keys |-> IF k = KeyConversation THEN conv
                      ELSE IF k = KeyPrompts THEN prompts ELSE gens]

BuilderInputs ==
  {MakeRaw(c, pg[1], pg[2]) :
     c \in ConversationValues \cup BarrenConversationValues, pg \in FewAiValuePairs}
  \cup {MakeRaw(UndefinedValue, pg[1], pg[2]) : pg \in AiValuePairs}

(***************************************************************************)
(* State.                                                                  *)
(***************************************************************************)
VARIABLES
  db,                    \* the database handed to extractConversation
  tables,                \* extractConversation: the table names listed
  patternIndex,          \* extractConversation: next pattern of the cursorDiskKV loop
  pc,                    \* position in extractConversation / buildMessages
  raw,                   \* the raw map
  consulted,             \* keys of raw read by the builder so far
  messages,              \* extractComposerConversation: messages before the sort
  composerConversation,  \* buildMessages: result of extractComposerConversation
  promptMessages,        \* extractAiServiceConversation: promptMessages
  generationMessages,    \* extractAiServiceConversation: generationMessages
  aiServiceConversation, \* buildMessages: result of extractAiServiceConversation
  result,                \* the messages buildMessages returned
  handler,               \* the caller of extractConversation: POST or extractFile
  upload,                \* the uploaded file part and how its database behaves
  hostPc,                \* position in the caller
  loaded,                \* the caller holds a database handle (loadDatabase returned)
  closeCalls,            \* number of calls of db.close()
  response,              \* what the caller produced: a JSON response or the page state
  cell,                  \* decodeValue: the value handed to the decoder
  decodedOnce,           \* decodeValue(cell)
  decodedTwice,          \* decodeValue(decodeValue(cell))
  stmts,                 \* the statements prepared and those released with stmt.free()
  selectedFile,          \* page: selectedFile
  isExtracting,          \* page: isExtracting
  pageError,             \* page: error
  pageResult,            \* page: result
  inFlight,              \* page: the extractFile calls that have not completed
  events                 \* page: number of change events of the file input so far

\* The state of the callers of extractConversation.
hostVars == <<handler, upload, hostPc, loaded, closeCalls, response>>

\* The state of a run of the decoder alone.
decoderVars == <<cell, decodedOnce, decodedTwice>>

\* The state of the page.
pageVars == <<selectedFile, isExtracting, pageError, pageResult, inFlight, events>>

vars ==
  <<db, tables, patternIndex, pc, raw, consulted, messages, composerConversation, promptMessages,
    generationMessages, aiServiceConversation, result, hostVars, decoderVars, stmts, pageVars>>

builderVars ==
  <<consulted, messages, composerConversation, promptMessages,
    generationMessages, aiServiceConversation, result>>

BuilderStart ==
  /\ consulted = {}
  /\ messages = <<>>
  /\ composerConversation = <<>>
  /\ promptMessages = <<>>
  /\ generationMessages = <<>>
  /\ aiServiceConversation = <<>>
  /\ result = <<>>

\* A database with no table.
EmptyDatabase ==
  [tables |-> <<>>, itemRows |-> <<>>, kvRows |-> <<>>, failing |-> {},
   failingPatterns |-> {}, failAfter |-> 0]

\* No statement prepared yet.
NoStatements == [prepared |-> 0, freed |-> 0]

\* No file part: formData.get("file") is null.
NoUpload ==
  [file |-> "missing", name |-> <<>>, byteLength |-> 0, loads |-> FALSE,
   closeThrows |-> FALSE]

\* Nothing produced yet.
NoResponse == [kind |-> "none", status |-> 0, error |-> "", hasResult |-> FALSE]

\* The page as it is mounted: the initial values of its useState hooks, no
\* call of extractFile.
PageMounted ==
  /\ selectedFile = "null"
  /\ isExtracting = FALSE
  /\ pageError = "null"
  /\ pageResult = "null"
  /\ inFlight = <<>>
  /\ events = 0

\* No caller: extractConversation or buildMessages is run on its own.
HostIdle ==
  /\ handler = "none"
  /\ upload = NoUpload
  /\ hostPc = "idle"
  /\ loaded = FALSE
  /\ closeCalls = 0
  /\ response = NoResponse
  /\ PageMounted

\* The decoder is not run on its own.
DecoderIdle ==
  /\ cell = NullCell
  /\ decodedOnce = UndefinedValue
  /\ decodedTwice = UndefinedValue

\* buildMessages is entered with a raw map.
BuilderInit ==
  /\ db = EmptyDatabase
  /\ tables = <<>>
  /\ patternIndex = 1
  /\ pc = "buildMessages"
  /\ raw \in BuilderInputs
  /\ BuilderStart
  /\ HostIdle
  /\ DecoderIdle
  /\ stmts = NoStatements

(***************************************************************************)
(* buildMessages and its two strategies.                                   *)
(***************************************************************************)
\* extractComposerConversation up to the sort: the isArray test and forEach.
ComposerForEach ==
  /\ pc = "buildMessages"
  /\ consulted' = consulted \cup {KeyConversation}
  /\ LET built == ComposerMessages(RawGet(raw, KeyConversation))
     IN  IF built.threw
         THEN /\ pc' = "thrown"
              /\ UNCHANGED messages
         ELSE /\ messages' = built.msgs
              /\ pc' = IF RawGet(raw, KeyConversation).t = "array"
                       THEN "composerSort" ELSE "composerReturned"
  /\ UNCHANGED <<db, tables, patternIndex, raw, composerConversation, promptMessages, generationMessages,
                 aiServiceConversation, result>>
  /\ UNCHANGED <<hostVars, decoderVars, stmts, pageVars>>

\* return messages.sort(...)
ComposerSort ==
  /\ pc = "composerSort"
  /\ composerConversation' \in SortOutcomes("composer", messages)
  /\ pc' = "composerReturned"
  /\ UNCHANGED <<db, tables, patternIndex, raw, consulted, messages, promptMessages, generationMessages,
                 aiServiceConversation, result>>
  /\ UNCHANGED <<hostVars, decoderVars, stmts, pageVars>>

\* UseComposer asking for more than one message.
UseComposerMoreThanOne(conversation) == Len(conversation) > 1

\* UseComposer with the early return lost.
UseComposerNever(conversation) == Len(conversation) < 0

\* if (composerConversation.length > 0) return composerConversation
UseComposer(conversation) == Len(conversation) > 0

ReturnComposer ==
  /\ pc = "composerReturned"
  /\ UseComposer(composerConversation)
  /\ result' = composerConversation
  /\ pc' = "done"
  /\ UNCHANGED <<db, tables, patternIndex, raw, consulted, messages, composerConversation, promptMessages,
                 generationMessages, aiServiceConversation>>
  /\ UNCHANGED <<hostVars, decoderVars, stmts, pageVars>>

\* extractAiServiceConversation, Step 1 (with the two reads of raw).
AiExtractPrompts ==
  /\ pc = "composerReturned"
  /\ ~UseComposer(composerConversation)
  /\ consulted' = consulted \cup {KeyPrompts, KeyGenerations}
  /\ LET built == AiMessages("prompt", RawGet(raw, KeyPrompts))
     IN  IF built.threw
         THEN /\ pc' = "thrown"
              /\ UNCHANGED promptMessages
         ELSE /\ promptMessages' = built.msgs
              /\ pc' = "aiGenerations"
  /\ UNCHANGED <<db, tables, patternIndex, raw, messages, composerConversation, generationMessages,
                 aiServiceConversation, result>>
  /\ UNCHANGED <<hostVars, decoderVars, stmts, pageVars>>

\* Step 2
AiExtractGenerations ==
  /\ pc = "aiGenerations"
  /\ LET built == AiMessages("generation", RawGet(raw, KeyGenerations))
     IN  IF built.threw
         THEN /\ pc' = "thrown"
              /\ UNCHANGED generationMessages
         ELSE /\ generationMessages' = built.msgs
              /\ pc' = "aiInfer"
  /\ UNCHANGED <<db, tables, patternIndex, raw, consulted, messages, composerConversation, promptMessages,
                 aiServiceConversation, result>>
  /\ UNCHANGED <<hostVars, decoderVars, stmts, pageVars>>

\* Step 3
AiInferTimestamps ==
  /\ pc = "aiInfer"
  /\ LET inferred == InferTimestamps(promptMessages, generationMessages)
     IN  IF inferred.threw
         THEN /\ pc' = "thrown"
              /\ UNCHANGED promptMessages
         ELSE /\ promptMessages' = inferred.msgs
              /\ pc' = "aiSort"
  /\ UNCHANGED <<db, tables, patternIndex, raw, consulted, messages, composerConversation, generationMessages,
                 aiServiceConversation, result>>
  /\ UNCHANGED <<hostVars, decoderVars, stmts, pageVars>>

\* Step 4: combine, return [] when empty, sort otherwise.
AiCombineAndSort ==
  /\ pc = "aiSort"
  /\ aiServiceConversation' \in SortOutcomes("aiService", promptMessages \o generationMessages)
  /\ pc' = "aiReturned"
  /\ UNCHANGED <<db, tables, patternIndex, raw, consulted, messages, composerConversation, promptMessages,
                 generationMessages, result>>
  /\ UNCHANGED <<hostVars, decoderVars, stmts, pageVars>>

\* ReturnAiService raising when neither strategy found a message.
ReturnAiServiceOrThrow ==
  /\ pc = "aiReturned"
  /\ result' = aiServiceConversation
  /\ pc' = IF Len(aiServiceConversation) > 0 THEN "done" ELSE "thrown"
  /\ UNCHANGED <<db, tables, patternIndex, raw, consulted, messages, composerConversation, promptMessages,
                 generationMessages, aiServiceConversation>>
  /\ UNCHANGED <<hostVars, decoderVars, stmts, pageVars>>

\* if (aiServiceConversation.length > 0) return aiServiceConversation; return []
ReturnAiService ==
  /\ pc = "aiReturned"
  /\ result' = IF Len(aiServiceConversation) > 0 THEN aiServiceConversation ELSE <<>>
  /\ pc' = "done"
  /\ UNCHANGED <<db, tables, patternIndex, raw, consulted, messages, composerConversation, promptMessages,
                 generationMessages, aiServiceConversation>>
  /\ UNCHANGED <<hostVars, decoderVars, stmts, pageVars>>

BuilderNext ==
  \/ ComposerForEach
  \/ ComposerSort
  \/ ReturnComposer
  \/ AiExtractPrompts
  \/ AiExtractGenerations
  \/ AiInferTimestamps
  \/ AiCombineAndSort
  \/ ReturnAiService

\* buildMessages applied to every raw map of BuilderInputs.
BuilderSpec == BuilderInit /\ [][BuilderNext]_vars

(***************************************************************************)
(* extractConversation on a database: the scanner, then buildMessages.     *)
(***************************************************************************)
\* Largest number of rows of ItemTable and cursorDiskKV together.
MaxRows == 3

KeyTheme == <<"t", "h", "e", "m", "e">>
KeyPanelChat == <<"A", "I", "C", "h", "a", "t">>

\* JSON text of the array [{"text":"a","type":1}]
TextOfArrayA == ValueJson(ArrayValue(<<[EmptyItem EXCEPT !.text = JsStr(<<"a">>), !.type = JsNum(1)]>>))
\* JSON text of the array [{"text":"b"}], with white space around it
TextOfArrayB == <<" ">> \o ValueJson(ArrayValue(<<[EmptyItem EXCEPT !.text = JsStr(<<"b">>)]>>)) \o <<"\n">>
\* JSON text of {"conversation":[{"text":"a","type":1}]}
TextOfComposerData ==
  ValueJson(ObjectValue([k \in {KeyConversation} |->
                           ArrayValue(<<[EmptyItem EXCEPT !.text = JsStr(<<"a">>), !.type = JsNum(1)]>>)]))

\* JSON text of the array [{"text":" "}]
TextOfBlankArray == ValueJson(ArrayValue(<<[EmptyItem EXCEPT !.text = JsStr(<<" ">>)]>>))

ItemTableRows ==
  { [key |-> TextCell(KeyComposerData), value |-> BlobCell(TextOfComposerData)],
    [key |-> TextCell(KeyConversation), value |-> TextCell(TextOfBlankArray)],
    [key |-> TextCell(KeyPanelChat), value |-> TextCell(TextOfArrayA)],
    [key |-> TextCell(KeyTheme), value |-> TextCell(TextOfArrayA)] }

DiskKVRows ==
  { [key |-> TextCell(KeyComposerData), value |-> BlobCell(TextOfArrayB)],
    [key |-> TextCell(KeyPrompts), value |-> TextCell(TextOfArrayA)],
    [key |-> TextCell(KeyConversation), value |-> BlobCell(TextOfArrayB)],
    [key |-> TextCell(<<"c", "o", "m", "p", "o", "s", "e", "r", ".", "c", "h", "a", "t">>),
     value |-> TextCell(<<"{", "h", "i">>)] }

\* The reads that throw in a database, and the number of rows read before
\* the throw: none, the table listing, the read of ItemTable (at prepare or
\* after a row), or the read for the pattern composer% (likewise).
FailingSets ==
  { [reads |-> {}, patterns |-> {}, failAfter |-> 0],
    [reads |-> {"listTables"}, patterns |-> {}, failAfter |-> 0],
    [reads |-> {ItemTableName}, patterns |-> {}, failAfter |-> 0],
    [reads |-> {ItemTableName}, patterns |-> {}, failAfter |-> 1],
    [reads |-> {}, patterns |-> {Patterns[2]}, failAfter |-> 0],
    [reads |-> {}, patterns |-> {Patterns[2]}, failAfter |-> 1] }

\* The rows a database with the tables t can hold.
RowPairs(t) ==
  {ik \in SeqPairsUpTo(ItemTableRows, DiskKVRows, MaxRows) :
     /\ (Len(ik[1]) > 0 => TablesInclude(t, ItemTableName))
     /\ (Len(ik[2]) > 0 => TablesInclude(t, DiskKVName))}

\* The databases: a list of tables, rows, and a failure the rows exercise
\* (the failing read has rows to lose; a failing table listing hides at
\* most one row).
Databases ==
  UNION {{[tables |-> t, itemRows |-> x[2][1], kvRows |-> x[2][2], failing |-> x[1].reads,
            failingPatterns |-> x[1].patterns, failAfter |-> x[1].failAfter] :
            x \in {y \in FailingSets \X RowPairs(t) :
                     /\ ItemTableName \in y[1].reads => Len(y[2][1]) > 0
                     /\ y[1].patterns # {} => Len(y[2][2]) > 0
                     /\ "listTables" \in y[1].reads => Len(y[2][1]) + Len(y[2][2]) <= 1}} :
         t \in {<<>>, <<ItemTableName>>, <<DiskKVName>>,
                <<DiskKVName, "other", ItemTableName>>}}

Init ==
  /\ db \in Databases
  /\ tables = <<>>
  /\ patternIndex = 1
  /\ pc = "extractConversation"
  /\ raw = <<>>
  /\ BuilderStart
  /\ HostIdle
  /\ DecoderIdle
  /\ stmts = NoStatements

\* const tables = listTables(db); const raw = {}
ListTables ==
  /\ pc = "extractConversation"
  /\ tables' = listTables(db)
  /\ raw' = <<>>
  /\ pc' = "ItemTable"
  /\ UNCHANGED <<db, patternIndex>>
  /\ UNCHANGED builderVars
  /\ UNCHANGED <<hostVars, decoderVars, stmts, pageVars>>

\* if (tables.includes("ItemTable")) { ... }
ReadItemTable ==
  /\ pc = "ItemTable"
  /\ raw' = IF TablesInclude(tables, ItemTableName)
            THEN ItemTableLoop(raw, selectKeyValue(db, ItemTableName))
            ELSE raw
  /\ \E prepareThrew \in (IF ItemTableName \in db.failing /\ db.failAfter = 0
                           THEN BOOLEAN ELSE {FALSE}) :
       stmts' = IF TablesInclude(tables, ItemTableName)
                THEN StatementsAfter(stmts, ItemTableName \in db.failing, prepareThrew)
                ELSE stmts
  /\ pc' = "cursorDiskKV"
  /\ UNCHANGED <<db, tables, patternIndex>>
  /\ UNCHANGED builderVars
  /\ UNCHANGED <<hostVars, decoderVars, pageVars>>

\* One iteration of for (const pattern of patterns), when cursorDiskKV exists.
ReadPattern ==
  /\ pc = "cursorDiskKV"
  /\ TablesInclude(tables, DiskKVName)
  /\ patternIndex <= Len(Patterns)
  /\ raw' = DiskKVLoop(raw, selectKeyValueWithPattern(db, DiskKVName, Patterns[patternIndex]))
  /\ \E prepareThrew \in (IF Patterns[patternIndex] \in db.failingPatterns /\ db.failAfter = 0
                           THEN BOOLEAN ELSE {FALSE}) :
       stmts' = StatementsAfter(stmts, Patterns[patternIndex] \in db.failingPatterns,
                                prepareThrew)
  /\ patternIndex' = patternIndex + 1
  /\ UNCHANGED <<db, tables, pc>>
  /\ UNCHANGED builderVars
  /\ UNCHANGED <<hostVars, decoderVars, pageVars>>

\* const messages = buildMessages(raw), after the cursorDiskKV block.
CallBuildMessages ==
  /\ pc = "cursorDiskKV"
  /\ ~TablesInclude(tables, DiskKVName) \/ patternIndex > Len(Patterns)
  /\ pc' = "buildMessages"
  /\ UNCHANGED <<db, tables, patternIndex, raw>>
  /\ UNCHANGED builderVars
  /\ UNCHANGED <<hostVars, decoderVars, stmts, pageVars>>

Next ==
  \/ ListTables
  \/ ReadItemTable
  \/ ReadPattern
  \/ CallBuildMessages
  \/ BuilderNext

\* extractConversation applied to every database of Databases.
Spec == Init /\ [][Next]_vars

(***************************************************************************)
(* The callers of extractConversation: the POST route and the page's       *)
(* extractFile.  Each loads the database from the uploaded bytes, calls    *)
(* extractConversation, closes the database and answers.                   *)
(***************************************************************************)
\* String.prototype.endsWith
EndsWithString(s, suffix) ==
  Len(s) >= Len(suffix) /\ SubSeq(s, Len(s) - Len(suffix) + 1, Len(s)) = suffix

\* file.name.endsWith(".vscdb") || file.name.endsWith(".vscdb.backup")
NameAccepted(name) ==
  \/ EndsWithString(name, <<".", "v", "s", "c", "d", "b">>)
  \/ EndsWithString(name, <<".", "v", "s", "c", "d", "b", ".", "b", "a", "c", "k", "u", "p">>)

\* s.vscdb, s.vscdb.backup, s.db
FileNames ==
  { <<"s", ".", "v", "s", "c", "d", "b">>,
    <<"s", ".", "v", "s", "c", "d", "b", ".", "b", "a", "c", "k", "u", "p">>,
    <<"s", ".", "d", "b">> }

\* The file parts a request can carry: none, a string field, or a file.
Uploads ==
  {NoUpload, [NoUpload EXCEPT !.file = "string"]}
  \cup {[file |-> "file", name |-> n, byteLength |-> 0, loads |-> FALSE, closeThrows |-> FALSE] :
          n \in FileNames}
  \cup {[file |-> "file", name |-> n, byteLength |-> 1, loads |-> l, closeThrows |-> c] :
          n \in FileNames, l \in BOOLEAN, c \in BOOLEAN}

\* JSON text of [{"text":"e","timingInfo":{"clientStartTime":n}}] with n
\* beyond the range of Date.
TextOfLateArray ==
  ValueJson(ArrayValue(<<[EmptyItem EXCEPT !.text = JsStr(<<"e">>),
                            !.timingInfo = [NoTiming EXCEPT !.t = "object",
                                                            !.clientStartTime = JsNum(TimeClipMax + 1)]]>>))

\* The databases the uploaded files hold: those of at most one row whose
\* reads succeed, and one on which buildMessages throws.
HostDatabases ==
  {d \in Databases : Len(d.itemRows) + Len(d.kvRows) <= 1 /\ d.failing = {}
                       /\ d.failingPatterns = {}}
  \cup {[EmptyDatabase EXCEPT !.tables = <<ItemTableName>>,
                              !.itemRows = <<[key |-> TextCell(KeyConversation),
                                              value |-> TextCell(TextOfLateArray)]>>]}

HostInit ==
  /\ handler \in {"POST", "extractFile"}
  /\ upload \in {u \in Uploads : handler = "extractFile" => u.file = "file"}
  /\ db \in (IF upload.loads THEN HostDatabases ELSE {EmptyDatabase})
  /\ hostPc = "called"
  /\ loaded = FALSE
  /\ closeCalls = 0
  /\ response = NoResponse
  /\ tables = <<>>
  /\ patternIndex = 1
  /\ pc = "idle"
  /\ raw = <<>>
  /\ BuilderStart
  /\ DecoderIdle
  /\ PageMounted
  /\ stmts = NoStatements

JsonResponse(status, error) ==
  [kind |-> "json", status |-> status, error |-> error, hasResult |-> status = 200]

\* setResult(payload) or setResult(null); setError(message)
PageState(error) ==
  [kind |-> "page", status |-> 0, error |-> error, hasResult |-> error = ""]

\* PostValidate testing the byte length before the name.
PostValidateSizeFirst ==
  /\ handler = "POST"
  /\ hostPc = "called"
  /\ IF upload.file # "file"
     THEN /\ response' = JsonResponse(400, "Missing .vscdb file in request")
          /\ hostPc' = "responded"
     ELSE IF upload.byteLength = 0
     THEN /\ response' = JsonResponse(400, "Uploaded file is empty")
          /\ hostPc' = "responded"
     ELSE IF ~NameAccepted(upload.name)
     THEN /\ response' = JsonResponse(400, "Upload must be a .vscdb or .vscdb.backup file")
          /\ hostPc' = "responded"
     ELSE /\ hostPc' = "loadDatabase"
          /\ UNCHANGED response
  /\ UNCHANGED <<handler, upload, loaded, closeCalls>>
  /\ UNCHANGED <<db, tables, patternIndex, pc, raw, builderVars, decoderVars, stmts, pageVars>>

\* POST up to loadDatabase: the three checks of the request.
PostValidate ==
  /\ handler = "POST"
  /\ hostPc = "called"
  /\ IF upload.file # "file"
     THEN /\ response' = JsonResponse(400, "Missing .vscdb file in request")
          /\ hostPc' = "responded"
     ELSE IF ~NameAccepted(upload.name)
     THEN /\ response' = JsonResponse(400, "Upload must be a .vscdb or .vscdb.backup file")
          /\ hostPc' = "responded"
     ELSE IF upload.byteLength = 0
     THEN /\ response' = JsonResponse(400, "Uploaded file is empty")
          /\ hostPc' = "responded"
     ELSE /\ hostPc' = "loadDatabase"
          /\ UNCHANGED response
  /\ UNCHANGED <<handler, upload, loaded, closeCalls>>
  /\ UNCHANGED <<db, tables, patternIndex, pc, raw, builderVars, decoderVars, stmts, pageVars>>

\* extractFile up to loadDatabase: the test of the byte length.
ExtractFileStart ==
  /\ handler = "extractFile"
  /\ hostPc = "called"
  /\ IF upload.byteLength = 0
     THEN /\ response' = PageState("Uploaded file is empty")
          /\ hostPc' = "responded"
     ELSE /\ hostPc' = "loadDatabase"
          /\ UNCHANGED response
  /\ UNCHANGED <<handler, upload, loaded, closeCalls>>
  /\ UNCHANGED <<db, tables, patternIndex, pc, raw, builderVars, decoderVars, stmts, pageVars>>

\* db = await loadDatabase(buffer), then the call extractConversation(db).
LoadDatabase ==
  /\ hostPc = "loadDatabase"
  /\ IF upload.loads
     THEN /\ loaded' = TRUE
          /\ hostPc' = "extractConversation"
          /\ pc' = "extractConversation"
          /\ UNCHANGED response
     ELSE /\ response' = IF handler = "POST"
                         THEN JsonResponse(500, "Failed to load database")
                         ELSE PageState("Failed to load database")
          /\ hostPc' = "responded"
          /\ UNCHANGED <<loaded, pc>>
  /\ UNCHANGED <<handler, upload, closeCalls>>
  /\ UNCHANGED <<db, tables, patternIndex, raw, builderVars, decoderVars, stmts, pageVars>>

\* CloseDatabase run only when extractConversation returned: the close
\* placed after the try statement instead of in its finally block.
CloseDatabaseOnSuccessOnly ==
  /\ hostPc = "extractConversation"
  /\ pc \in {"done", "thrown"}
  /\ closeCalls' = IF pc = "done" THEN closeCalls + 1 ELSE closeCalls
  /\ hostPc' = "closed"
  /\ UNCHANGED <<handler, upload, loaded, response>>
  /\ UNCHANGED <<db, tables, patternIndex, pc, raw, builderVars, decoderVars, stmts, pageVars>>

\* finally { db.close() }, entered when extractConversation returned or threw.
CloseDatabase ==
  /\ hostPc = "extractConversation"
  /\ pc \in {"done", "thrown"}
  /\ closeCalls' = closeCalls + 1
  /\ hostPc' = "closed"
  /\ UNCHANGED <<handler, upload, loaded, response>>
  /\ UNCHANGED <<db, tables, patternIndex, pc, raw, builderVars, decoderVars, stmts, pageVars>>

\* What follows the finally block: POST returns its response (an error of
\* db.close() was caught and logged); extractFile sets the page state (an
\* error of db.close() replaces the outcome of the extraction).
Respond ==
  /\ hostPc = "closed"
  /\ response' =
       IF handler = "POST"
       THEN (IF pc = "thrown" THEN JsonResponse(500, "Failed to extract conversation")
             ELSE JsonResponse(200, ""))
       ELSE (IF upload.closeThrows THEN PageState("close failed")
             ELSE IF pc = "thrown" THEN PageState("Failed to extract conversation")
             ELSE PageState(""))
  /\ hostPc' = "responded"
  /\ UNCHANGED <<handler, upload, loaded, closeCalls>>
  /\ UNCHANGED <<db, tables, patternIndex, pc, raw, builderVars, decoderVars, stmts, pageVars>>

HostNext ==
  \/ PostValidate
  \/ ExtractFileStart
  \/ LoadDatabase
  \/ ListTables
  \/ ReadItemTable
  \/ ReadPattern
  \/ CallBuildMessages
  \/ BuilderNext
  \/ CloseDatabase
  \/ Respond

\* One request to the POST route, or one call of extractFile.
HostSpec == HostInit /\ [][HostNext]_vars

(***************************************************************************)
(* The page: change events of the file input and the asynchronous calls    *)
(* of extractFile they start.  A call runs up to its first await inside    *)
(* the event handler; each later step is the continuation of one await.    *)
(***************************************************************************)
\* Largest number of change events of the file input.
MaxEvents == 4

\* The files a change event can carry.
PageFiles ==
  {[name |-> n, byteLength |-> b] : n \in {"a.vscdb", "b.vscdb.backup", "c.vscdb"},
                                    b \in {0, 1}}

PageInit ==
  /\ pc = "page"
  /\ db = EmptyDatabase
  /\ tables = <<>>
  /\ patternIndex = 1
  /\ raw = <<>>
  /\ BuilderStart
  /\ HostIdle
  /\ DecoderIdle
  /\ stmts = NoStatements

\* HandleFileChange with the file input left enabled during an extraction.
HandleFileChangeWhileExtracting ==
  /\ pc = "page"
  /\ events < MaxEvents
  /\ events' = events + 1
  /\ pageResult' = "null"
  /\ pageError' = "null"
  /\ \/ /\ selectedFile' = "null"
        /\ UNCHANGED <<isExtracting, inFlight>>
     \/ \E file \in PageFiles :
          /\ selectedFile' = file.name
          /\ isExtracting' = TRUE
          /\ inFlight' = Append(inFlight, [file |-> file, at |-> "import"])
  /\ UNCHANGED <<db, tables, patternIndex, pc, raw, builderVars, hostVars, decoderVars, stmts>>

\* handleFileChange, with the synchronous part of extractFile(file) when a
\* file was chosen.  The input is disabled while isExtracting holds.
HandleFileChange ==
  /\ pc = "page"
  /\ ~isExtracting
  /\ events < MaxEvents
  /\ events' = events + 1
  /\ pageResult' = "null"
  /\ pageError' = "null"
  /\ \/ /\ selectedFile' = "null"
        /\ UNCHANGED <<isExtracting, inFlight>>
     \/ \E file \in PageFiles :
          /\ selectedFile' = file.name
          /\ isExtracting' = TRUE
          /\ inFlight' = Append(inFlight, [file |-> file, at |-> "import"])
  /\ UNCHANGED <<db, tables, patternIndex, pc, raw, builderVars, hostVars, decoderVars, stmts>>

\* An await of a call resolves and the call reaches its next await: the
\* import, then file.arrayBuffer() with a non-empty buffer.
ExtractFileAwait ==
  /\ pc = "page"
  /\ \E i \in 1..Len(inFlight) :
       \/ /\ inFlight[i].at = "import"
          /\ inFlight' = [inFlight EXCEPT ![i].at = "arrayBuffer"]
       \/ /\ inFlight[i].at = "arrayBuffer"
          /\ inFlight[i].file.byteLength # 0
          /\ inFlight' = [inFlight EXCEPT ![i].at = "loadDatabase"]
  /\ UNCHANGED <<selectedFile, isExtracting, pageError, pageResult, events>>
  /\ UNCHANGED <<db, tables, patternIndex, pc, raw, builderVars, hostVars, decoderVars, stmts>>

\* loadDatabase resolves, extractConversation returns, the database is
\* closed: setResult(payload), then finally setIsExtracting(false).
ExtractFileSucceeds ==
  /\ pc = "page"
  /\ \E i \in 1..Len(inFlight) :
       /\ inFlight[i].at = "loadDatabase"
       /\ pageResult' = inFlight[i].file.name
       /\ inFlight' = SubSeq(inFlight, 1, i - 1) \o SubSeq(inFlight, i + 1, Len(inFlight))
  /\ isExtracting' = FALSE
  /\ UNCHANGED <<selectedFile, pageError, events>>
  /\ UNCHANGED <<db, tables, patternIndex, pc, raw, builderVars, hostVars, decoderVars, stmts>>

\* Something is thrown inside the try block (a rejected await, the empty
\* buffer, extractConversation or db.close()): the catch block's
\* setResult(null) and setError(message), then finally setIsExtracting(false).
ExtractFileFails ==
  /\ pc = "page"
  /\ \E i \in 1..Len(inFlight) :
       /\ inFlight[i].at = "arrayBuffer" => inFlight[i].file.byteLength = 0
       /\ pageError' \in (IF inFlight[i].at = "arrayBuffer" THEN {"Uploaded file is empty"}
                          ELSE IF inFlight[i].at = "import" THEN {"import"}
                          ELSE {"loadDatabase", "extractConversation", "close"})
       /\ inFlight' = SubSeq(inFlight, 1, i - 1) \o SubSeq(inFlight, i + 1, Len(inFlight))
  /\ pageResult' = "null"
  /\ isExtracting' = FALSE
  /\ UNCHANGED <<selectedFile, events>>
  /\ UNCHANGED <<db, tables, patternIndex, pc, raw, builderVars, hostVars, decoderVars, stmts>>

PageNext ==
  \/ HandleFileChange
  \/ ExtractFileAwait
  \/ ExtractFileSucceeds
  \/ ExtractFileFails

PageSpec == PageInit /\ [][PageNext]_vars

(***************************************************************************)
(* decodeValue on its own, applied twice to a value.                       *)
(***************************************************************************)
\* Largest length of the texts drawn from TextChars.
MaxText == 3

\* The values handed to the decoder: as text and as blob, every short text,
\* the texts stored in the databases and JSON string literals; null,
\* numbers, undefined and the structures JSON.parse returns.
DecoderInputs ==
  LET texts == SeqsUpTo({"[", "]", "{", "}", " ", "\f", "a"}, MaxText)
               \cup {TextOfArrayA, TextOfArrayB, TextOfComposerData, TextOfLateArray,
                     Quote(<<"a">>), Quote(<<"[", "]">>), <<" ">> \o Quote(<<"{", "}">>)}
  IN  {TextCell(t) : t \in texts}
      \cup {BlobCell(t) : t \in texts}
      \cup {NullCell, NumberCell(0), NumberCell(7), UndefinedValue}
      \cup JsonUniverse

DecoderInit ==
  /\ cell \in DecoderInputs
  /\ decodedOnce = UndefinedValue
  /\ decodedTwice = UndefinedValue
  /\ pc = "decodeValue"
  /\ db = EmptyDatabase
  /\ tables = <<>>
  /\ patternIndex = 1
  /\ raw = <<>>
  /\ BuilderStart
  /\ HostIdle
  /\ stmts = NoStatements

\* decodeValue(cell)
Decode ==
  /\ pc = "decodeValue"
  /\ decodedOnce' = decodeValue(cell)
  /\ pc' = "decoded"
  /\ UNCHANGED <<cell, decodedTwice>>
  /\ UNCHANGED <<db, tables, patternIndex, raw, builderVars, hostVars, stmts, pageVars>>

\* decodeValue applied to the value it returned
DecodeAgain ==
  /\ pc = "decoded"
  /\ decodedTwice' = decodeValue(decodedOnce)
  /\ pc' = "decodedAgain"
  /\ UNCHANGED <<cell, decodedOnce>>
  /\ UNCHANGED <<db, tables, patternIndex, raw, builderVars, hostVars, stmts, pageVars>>

DecoderNext == Decode \/ DecodeAgain

DecoderSpec == DecoderInit /\ [][DecoderNext]_vars

(***************************************************************************)
(* Properties of the scanner (checked under Spec).                         *)
(***************************************************************************)
ScanDone == pc \notin {"extractConversation", "ItemTable", "cursorDiskKV"}

\* The scan has just ended: buildMessages is about to be called with raw.
AtScanEnd == pc = "buildMessages"

\* The rows of ItemTable the scan read.
ItemRowsRead ==
  IF TablesInclude(tables, ItemTableName) /\ ItemTableName \notin db.failing
  THEN db.itemRows ELSE <<>>

\* The positions of the rows of cursorDiskKV the read for pattern p returned.
DiskKVMatches(p) ==
  IF TablesInclude(tables, DiskKVName) /\ Patterns[p] \notin db.failingPatterns
  THEN {j \in 1..Len(db.kvRows) : Like(Patterns[p], db.kvRows[j].key.s)}
  ELSE {}

\* The values the ItemTable phase can have left under key k: those of the
\* retained rows with that key and, for the synthetic key conversation, the
\* conversation property of a composer.composerData row.
ItemTableValues(k) ==
  {decodeValue(ItemRowsRead[i].value) :
     i \in {x \in 1..Len(ItemRowsRead) :
              ItemRowsRead[x].key.s = k /\ IsConversationKey(k)}}
  \cup
  {decodeValue(ItemRowsRead[i].value).props[KeyConversation] :
     i \in {x \in 1..Len(ItemRowsRead) :
              /\ k = KeyConversation
              /\ ItemRowsRead[x].key.s = KeyComposerData
              /\ KeyConversation \in DOMAIN decodeValue(ItemRowsRead[x].value).props}}

\* The patterns that match a row with key k.
PatternsMatching(k) ==
  {p \in 1..Len(Patterns) : \E j \in DiskKVMatches(p) : db.kvRows[j].key.s = k}

\* The value of the first row with key k in pattern order, then row order.
FirstDiskKVValue(k) ==
  LET p == CHOOSE x \in PatternsMatching(k) : \A y \in PatternsMatching(k) : x <= y
      rowsOfK == {j \in DiskKVMatches(p) : db.kvRows[j].key.s = k}
      j == CHOOSE x \in rowsOfK : \A y \in rowsOfK : x <= y
  IN  decodeValue(db.kvRows[j].value)

\* C1: after the scan, a key the ItemTable phase wrote (the synthetic key
\* conversation included) holds an ItemTable value whatever cursorDiskKV
\* rows match it, and a key written by the cursorDiskKV phase holds the value
\* of its first match in the order of the patterns.
C1_FirstWriterWins ==
  AtScanEnd =>
    \A k \in DOMAIN raw :
      IF ItemTableValues(k) # {}
      THEN raw[k] \in ItemTableValues(k)
      ELSE PatternsMatching(k) # {} /\ raw[k] = FirstDiskKVValue(k)

C1_Witness ==
  /\ AtScanEnd
  /\ \E k \in DOMAIN raw :
       /\ ItemTableValues(k) # {}
       /\ PatternsMatching(k) # {}
       /\ FirstDiskKVValue(k) \notin ItemTableValues(k)
       /\ raw[k] \in ItemTableValues(k)
  /\ \E k \in DOMAIN raw :
       /\ ItemTableValues(k) = {}
       /\ Cardinality(PatternsMatching(k)) >= 2

(***************************************************************************)
(* Properties of the builder (checked under BuilderSpec).                  *)
(***************************************************************************)
\* The elements of the source array a message kind is extracted from.
SourceItems(kind) ==
  LET key == IF kind = "composer" THEN KeyConversation
             ELSE IF kind = "prompt" THEN KeyPrompts ELSE KeyGenerations
  IN  RawGet(raw, key).items

KindOf(m) == IdType(m.id)[1]
IndexOf(m) == IdIndex(m.id).n
Returned == pc = "done"

\* A field that is missing, empty or whitespace-only.
BlankField(v) ==
  \/ v.t \in {"undefined", "null"}
  \/ v.t = "string" /\ \A k \in 1..Len(v.s) : v.s[k] \in WhiteSpace
  \/ v.t = "array"

\* The field an element's text is taken from: the first that is present.
FirstPresent(fields) ==
  IF \E k \in 1..Len(fields) : fields[k].t \notin {"undefined", "null"}
  THEN fields[CHOOSE k \in 1..Len(fields) :
                /\ fields[k].t \notin {"undefined", "null"}
                /\ \A m \in 1..(k - 1) : fields[m].t \in {"undefined", "null"}]
  ELSE Undefined

TextFieldOf(kind, item) ==
  IF kind = "composer" THEN FirstPresent(<<item.text>>)
  ELSE IF kind = "prompt" THEN FirstPresent(<<item.prompt, item.text>>)
  ELSE FirstPresent(<<item.textDescription, item.response, item.text>>)

\* C2: buildMessages never raises, whatever the shape of the elements of the
\* raw map (non-objects, missing fields, non-numeric or out-of-range
\* timestamp fields).
C2_BuilderNeverRaises == pc # "thrown"

\* C3: buildMessages returns exactly the output of the composer strategy when
\* that output has at least one message and otherwise exactly the output of
\* the aiService strategy; the ids of a result are all of kind composer or all
\* of kind prompt/generation.
C3_StrategyPriority ==
  Returned =>
    /\ result = IF Len(composerConversation) > 0 THEN composerConversation
                ELSE aiServiceConversation
    /\ \/ \A i \in 1..Len(result) : KindOf(result[i]) = "composer"
       \/ \A i \in 1..Len(result) : KindOf(result[i]) \in {"prompt", "generation"}

C3_Witness ==
  /\ Returned
  /\ Len(composerConversation) > 0
  /\ Len(SourceItems("prompt")) > 0
  /\ Len(SourceItems("generation")) > 0
  /\ result = composerConversation

AiNotConsulted ==
  /\ consulted \cap {KeyPrompts, KeyGenerations} = {}
  /\ \A i \in 1..Len(result) : KindOf(result[i]) \notin {"prompt", "generation"}

\* C4 as stated: whenever raw["conversation"] is a non-empty array the
\* aiService inputs are never consulted and no prompt-/generation- message is
\* in the result.
C4_NonEmptyArrayExcludesAi ==
  (RawGet(raw, KeyConversation).t = "array" /\ Len(SourceItems("composer")) > 0)
    => AiNotConsulted

\* C4 amended: whenever raw["conversation"] is an array holding at least one
\* object element whose text is not blank, the aiService inputs are never
\* consulted and no prompt-/generation- message is in the result.
C4_ProductiveArrayExcludesAi ==
  (/\ RawGet(raw, KeyConversation).t = "array"
   /\ \E i \in 1..Len(SourceItems("composer")) :
        /\ SourceItems("composer")[i].shape = "object"
        /\ ~BlankField(SourceItems("composer")[i].text))
    => AiNotConsulted

C4_Witness ==
  /\ Returned
  /\ \E i \in 1..Len(SourceItems("composer")) :
       /\ SourceItems("composer")[i].shape = "object"
       /\ ~BlankField(SourceItems("composer")[i].text)
  /\ Len(SourceItems("prompt")) > 0
  /\ Len(result) > 0
  /\ consulted = {KeyConversation}

\* C5: every message buildMessages returns has a text that is not blank
\* after trimming, and a source element whose extracted text is missing,
\* empty or whitespace-only has no message in the result.
C5_NoBlankText ==
  Returned =>
    /\ \A i \in 1..Len(result) :
         \E k \in 1..Len(result[i].text) : result[i].text[k] \notin WhiteSpace
    /\ \A kind \in {"composer", "prompt", "generation"} :
         \A n \in 1..Len(SourceItems(kind)) :
           BlankField(TextFieldOf(kind, SourceItems(kind)[n]))
             => \A i \in 1..Len(result) : result[i].id # MessageId(kind, n - 1)

C5_Witness ==
  /\ Returned
  /\ Len(result) > 0
  /\ \E kind \in {"composer", "prompt", "generation"} :
       \E n \in 1..Len(SourceItems(kind)) :
         /\ SourceItems(kind)[n].shape = "object"
         /\ TextFieldOf(kind, SourceItems(kind)[n]).t = "string"
         /\ TextFieldOf(kind, SourceItems(kind)[n]).s # <<>>
         /\ BlankField(TextFieldOf(kind, SourceItems(kind)[n]))
         /\ KindOf(result[1]) = kind

\* C6: a returned prompt message prompt-i whose source element has no usable
\* unixMs, and for which generation-i (same source index) was emitted with a
\* timestamp T, has the timestamp T - 1 ms.
C6_InferenceBySourceIndex ==
  Returned =>
    \A i \in 1..Len(result) : \A j \in 1..Len(result) :
      (/\ KindOf(result[i]) = "prompt"
       /\ KindOf(result[j]) = "generation"
       /\ IndexOf(result[i]) = IndexOf(result[j])
       /\ ~(result[i].raw.unixMs.t = "number" /\ result[i].raw.unixMs.n # 0)
       /\ result[j].timestamp.has)
        => /\ result[i].timestamp.has
           /\ result[i].timestamp.ms = result[j].timestamp.ms - 1

\* C7: in the aiService output a user message and an assistant message with
\* equal timestamps appear user first.
C7_UserBeforeAssistantOnTie ==
  \A i \in 1..Len(aiServiceConversation) : \A j \in 1..Len(aiServiceConversation) :
    (/\ i < j
     /\ aiServiceConversation[i].timestamp.has
     /\ aiServiceConversation[j].timestamp.has
     /\ aiServiceConversation[i].timestamp.ms = aiServiceConversation[j].timestamp.ms)
      => ~(aiServiceConversation[i].role = "assistant"
           /\ aiServiceConversation[j].role = "user")

C7_Witness ==
  /\ Returned
  /\ \E i \in 1..Len(result) : \E j \in 1..Len(result) :
       /\ i < j
       /\ result[i].role = "user" /\ result[j].role = "assistant"
       /\ result[i].timestamp.has /\ result[j].timestamp.has
       /\ result[i].timestamp.ms = result[j].timestamp.ms
       \* the assistant message comes first in its source array position
       /\ IndexOf(result[j]) < IndexOf(result[i])

\* C8: in the list extractComposerConversation returns, of two messages that
\* both carry a timestamp the one with the smaller timestamp comes first.
C8_ComposerSortedByTimestamp ==
  \A i \in 1..Len(composerConversation) : \A j \in 1..Len(composerConversation) :
    (/\ i < j
     /\ composerConversation[i].timestamp.has
     /\ composerConversation[j].timestamp.has)
      => composerConversation[i].timestamp.ms <= composerConversation[j].timestamp.ms

\* C9: a composer message is user exactly when its element's type is the
\* number 1 and assistant otherwise; prompts are user, generations assistant;
\* no message has role system.
C9_RoleMapping ==
  Returned =>
    \A i \in 1..Len(result) :
      LET m == result[i]
          item == SourceItems(KindOf(m))[IndexOf(m) + 1]
      IN  /\ m.role \in {"user", "assistant"}
          /\ KindOf(m) = "composer" =>
               (m.role = "user" <=> (item.type.t = "number" /\ item.type.n = 1))
          /\ KindOf(m) = "prompt" => m.role = "user"
          /\ KindOf(m) = "generation" => m.role = "assistant"

C9_Witness ==
  /\ Returned
  /\ \E i \in 1..Len(result) : \E j \in 1..Len(result) :
       /\ KindOf(result[i]) = "composer"
       /\ result[i].raw.type.t = "string"
       /\ result[i].role = "assistant"
       /\ result[j].raw.type.t = "number"
       /\ result[j].role = "user"

\* C10: the ids of a result are pairwise different and have the form
\* <kind>-<i>, kind one of composer, prompt, generation and i the position of
\* the message's element in its source array, skipped elements counted.
C10_IdsUniqueAndPositional ==
  Returned =>
    /\ \A i \in 1..Len(result) : \A j \in 1..Len(result) :
         i # j => result[i].id # result[j].id
    /\ \A i \in 1..Len(result) :
         \E kind \in {"composer", "prompt", "generation"} :
           \E n \in 1..Len(SourceItems(kind)) :
             /\ result[i].id = <<kind, "-">> \o Digits(n - 1)
             /\ result[i].raw = SourceItems(kind)[n]
             /\ ~NotAnObject(SourceItems(kind)[n])
             /\ ~BlankField(TextFieldOf(kind, SourceItems(kind)[n]))

C10_Witness ==
  /\ Returned
  /\ Len(result) >= 2
  /\ \E i \in 1..Len(result) :
       \* a message whose index is neither its emission rank nor its position
       /\ IndexOf(result[i]) >= 2
       /\ i = 1
  /\ NotAnObject(SourceItems(KindOf(result[1]))[1])


\* The timestamp of the epoch-millisecond value n.
TimestampOf(n) == [has |-> TRUE, ms |-> n]

\* The timestamp a composer element should get: from clientStartTime when
\* that is a number, else from clientRpcSendTime when that is a number.
NumericFirstTimestamp(item) ==
  IF item.timingInfo.t # "object" THEN NoTimestamp
  ELSE IF item.timingInfo.clientStartTime.t = "number"
       THEN TimestampOf(item.timingInfo.clientStartTime.n)
  ELSE IF item.timingInfo.clientRpcSendTime.t = "number"
       THEN TimestampOf(item.timingInfo.clientRpcSendTime.n)
  ELSE NoTimestamp

\* C18: the timestamp of a composer message is that of clientStartTime when
\* it is a number, otherwise that of clientRpcSendTime when it is a number
\* (also when clientStartTime is present but not numeric), and absent when
\* neither is a number or there is no timingInfo object.
C18_ComposerTimestampNumericFirst ==
  Returned =>
    \A i \in 1..Len(result) :
      KindOf(result[i]) = "composer"
        => result[i].timestamp = NumericFirstTimestamp(result[i].raw)

\* C19: before the inference pass a prompt or generation message has a
\* timestamp exactly when the unixMs of its source element is a number, and
\* the timestamp is that of this value, 0 and negative values included.
C19_UnixMsTimestamp ==
  pc = "aiInfer" =>
    \A msgs \in {promptMessages, generationMessages} :
      \A i \in 1..Len(msgs) :
        /\ msgs[i].timestamp.has <=> msgs[i].raw.unixMs.t = "number"
        /\ msgs[i].timestamp.has => msgs[i].timestamp.ms = msgs[i].raw.unixMs.n

\* C20: a returned prompt message prompt-i whose source element has no
\* numeric unixMs has no timestamp when no generation-i (same source index)
\* was emitted or generation-i has no timestamp: no generation at another
\* index gives a prompt its timestamp.
C20_NoInferenceFromOtherIndex ==
  Returned =>
    \A i \in 1..Len(result) :
      (/\ KindOf(result[i]) = "prompt"
       /\ result[i].raw.unixMs.t # "number"
       /\ \A j \in 1..Len(result) :
            (KindOf(result[j]) = "generation" /\ IndexOf(result[j]) = IndexOf(result[i]))
              => ~result[j].timestamp.has)
        => ~result[i].timestamp.has

\* C23: in the list extractComposerConversation returns, the messages
\* without a timestamp are in the order of their elements in
\* raw["conversation"] (ascending index).
C23_TimestamplessKeepOrder ==
  \A i \in 1..Len(composerConversation) : \A j \in 1..Len(composerConversation) :
    (/\ i < j
     /\ ~composerConversation[i].timestamp.has
     /\ ~composerConversation[j].timestamp.has)
      => IndexOf(composerConversation[i]) < IndexOf(composerConversation[j])

\* The output of extractAiServiceConversation is available.
AiSorted == pc \in {"aiReturned", "done"} /\ KeyPrompts \in consulted

\* C21: in the output of extractAiServiceConversation every message with a
\* timestamp comes before every message without one, and the messages with
\* a timestamp are in ascending order of their timestamps.
C21_TimestampedFirstAscending ==
  AiSorted =>
    \A i \in 1..Len(aiServiceConversation) : \A j \in 1..Len(aiServiceConversation) :
      i < j =>
        /\ aiServiceConversation[j].timestamp.has => aiServiceConversation[i].timestamp.has
        /\ (aiServiceConversation[i].timestamp.has /\ aiServiceConversation[j].timestamp.has)
             => aiServiceConversation[i].timestamp.ms <= aiServiceConversation[j].timestamp.ms

\* An output with two different timestamps and a timestamp-less message that
\* came first in the merged sequence.
C21_Witness ==
  /\ AiSorted
  /\ Len(promptMessages) > 0
  /\ ~promptMessages[1].timestamp.has
  /\ \E i \in 1..Len(aiServiceConversation) : \E j \in 1..Len(aiServiceConversation) :
       /\ i < j
       /\ aiServiceConversation[i].timestamp.has
       /\ aiServiceConversation[j].timestamp.has
       /\ aiServiceConversation[i].timestamp.ms < aiServiceConversation[j].timestamp.ms
       \* the later one came first in the generations array
       /\ KindOf(aiServiceConversation[i]) = "generation"
       /\ KindOf(aiServiceConversation[j]) = "generation"
       /\ IndexOf(aiServiceConversation[j]) < IndexOf(aiServiceConversation[i])

\* C22: among the messages of the aiService output without a timestamp the
\* prompts come before the generations and messages of one kind are in
\* ascending order of their numeric index (prompt-2 before prompt-10); two
\* messages of one kind with equal timestamps are in index order too.
C22_IndexOrderWithoutTimestamps ==
  AiSorted =>
    \A i \in 1..Len(aiServiceConversation) : \A j \in 1..Len(aiServiceConversation) :
      LET a == aiServiceConversation[i]
          b == aiServiceConversation[j]
      IN  (/\ i < j
           /\ \/ ~a.timestamp.has /\ ~b.timestamp.has
              \/ /\ a.timestamp.has /\ b.timestamp.has
                 /\ a.timestamp.ms = b.timestamp.ms
                 /\ KindOf(a) = KindOf(b))
            => /\ ~(KindOf(a) = "generation" /\ KindOf(b) = "prompt")
               /\ KindOf(a) = KindOf(b) => IndexOf(a) < IndexOf(b)

\* prompt-2, prompt-10 and a generation, all without timestamp.
C22_Witness ==
  /\ AiSorted
  /\ Len(aiServiceConversation) = 3
  /\ aiServiceConversation[1].id = MessageId("prompt", 2)
  /\ aiServiceConversation[2].id = MessageId("prompt", 10)
  /\ KindOf(aiServiceConversation[3]) = "generation"
  /\ \A i \in 1..3 : ~aiServiceConversation[i].timestamp.has

\* The merged messages handed to the sort of extractAiServiceConversation.
Merged == promptMessages \o generationMessages

\* C26: on the merged messages the aiService comparator is a strict total
\* order (of two different messages exactly one precedes the other, and
\* preceding is transitive), so the output does not depend on the order in
\* which the merged messages are presented to the sort: the output is the
\* only arrangement of them in which no message is preceded by one it
\* precedes, and it is what the sort returns for the reversed sequence too.
C26_ComparatorTotalOrder ==
  pc = "aiReturned" =>
    LET I == 1..Len(Merged)
        before == {p \in I \X I : AiCompare(Merged[p[1]], Merged[p[2]]) < 0}
    IN  /\ \A i \in I : \A j \in I :
             i # j => (<<i, j>> \in before <=> <<j, i>> \notin before)
        /\ \A i \in I : \A j \in I : \A k \in I :
             (<<i, j>> \in before /\ <<j, k>> \in before) => <<i, k>> \in before
        /\ \A presented \in Arrangements(Merged) :
             (\A i \in I : \A j \in I :
                i < j => ~(AiCompare(presented[j], presented[i]) < 0))
               => presented = aiServiceConversation
        /\ SortOutcomes("aiService", [i \in I |-> Merged[Len(Merged) + 1 - i]])
             = {aiServiceConversation}

\* Three or more merged messages that the sort had to rearrange.
C26_Witness ==
  /\ pc = "aiReturned"
  /\ Len(Merged) >= 3
  /\ aiServiceConversation # Merged
  /\ \E i \in 1..Len(Merged) : ~Merged[i].timestamp.has

\* The sequences hold the same elements the same number of times.
SameElements(s, t) ==
  /\ Len(s) = Len(t)
  /\ \A i \in 1..Len(s) :
       Cardinality({j \in 1..Len(s) : s[j] = s[i]})
         = Cardinality({j \in 1..Len(t) : t[j] = s[i]})

\* The output holds exactly one message for every element of the source
\* array of the kind that is an object with non-blank text, and no other
\* message of the kind.
OnePerElement(kind, output) ==
  LET src == SourceItems(kind)
      emitting == {n \in 1..Len(src) :
                     ~NotAnObject(src[n]) /\ ~BlankField(TextFieldOf(kind, src[n]))}
  IN  /\ \A n \in emitting :
           Cardinality({j \in 1..Len(output) :
                          output[j].id = MessageId(kind, n - 1) /\ output[j].raw = src[n]}) = 1
      /\ Cardinality({j \in 1..Len(output) : KindOf(output[j]) = kind})
           = Cardinality(emitting)

\* C27: the output of each strategy is a rearrangement of the messages its
\* extraction pass built (the sort and the timestamp inference add, drop
\* and duplicate nothing), and holds exactly one message for every source
\* element that is an object with non-blank text and no other message.
C27_NoLossNoDuplication ==
  /\ (pc = "composerReturned" /\ RawGet(raw, KeyConversation).t = "array") =>
       /\ SameElements(composerConversation, messages)
       /\ OnePerElement("composer", composerConversation)
  /\ pc = "aiReturned" =>
       /\ SameElements(aiServiceConversation, Merged)
       /\ OnePerElement("prompt", aiServiceConversation)
       /\ OnePerElement("generation", aiServiceConversation)
       /\ \A j \in 1..Len(aiServiceConversation) :
            KindOf(aiServiceConversation[j]) \in {"prompt", "generation"}

\* An aiService output that was rearranged, with an inferred timestamp and
\* a skipped source element.
C27_Witness ==
  /\ pc = "aiReturned"
  /\ aiServiceConversation # Merged
  /\ Len(aiServiceConversation) >= 3
  /\ Len(aiServiceConversation) < Len(SourceItems("prompt")) + Len(SourceItems("generation"))
  /\ \E j \in 1..Len(aiServiceConversation) :
       /\ KindOf(aiServiceConversation[j]) = "prompt"
       /\ aiServiceConversation[j].timestamp.has
       /\ aiServiceConversation[j].raw.unixMs.t # "number"

\* C28: the page's sortedMessages lists the messages of a result in the
\* order in which buildMessages returned them.
C28_DisplayOrderIsExtractionOrder ==
  Returned => sortedMessages(result) = {result}

(***************************************************************************)
(* Properties of extractConversation as a whole (checked under Spec).      *)
(***************************************************************************)
\* No element of the source array of the kind would be emitted: each is not
\* an object or has a blank text.
NoMessageSource(kind) ==
  \A n \in 1..Len(SourceItems(kind)) :
    \/ NotAnObject(SourceItems(kind)[n])
    \/ BlankField(TextFieldOf(kind, SourceItems(kind)[n]))

\* No retained key yields a message under either strategy.
NoRecognisedData ==
  \A kind \in {"composer", "prompt", "generation"} : NoMessageSource(kind)

\* C11: when the scan found no table, or no retained key yields a message
\* under either strategy, extractConversation does not throw and returns the
\* empty message list together with the raw map and the table names found.
C11_EmptyResultNotError ==
  (ScanDone /\ NoRecognisedData) =>
    /\ pc # "thrown"
    /\ pc = "done" => (result = <<>> /\ tables = listTables(db))

C11_Witness ==
  /\ pc = "done"
  /\ NoRecognisedData
  /\ result = <<>>
  /\ tables # <<>>
  /\ KeyConversation \in DOMAIN raw
  /\ Len(raw[KeyConversation].items) > 0


\* The keys of the rows stored in the database.
RowKeys ==
  {db.itemRows[i].key.s : i \in 1..Len(db.itemRows)}
  \cup {db.kvRows[j].key.s : j \in 1..Len(db.kvRows)}

\* Some read of rows throws.
SomeReadFails == db.failing \cap {ItemTableName} # {} \/ db.failingPatterns # {}

\* C12: a read of ItemTable, or of cursorDiskKV for one pattern, that throws
\* contributes no row to the raw map (the rows read before the throw
\* included), extractConversation does not throw, and the rows of every
\* other read are merged: a key is in the raw map exactly when a read that
\* did not throw yields it.
C12_FailedReadsContributeNothing ==
  /\ (ScanDone /\ SomeReadFails) => pc # "thrown"
  /\ AtScanEnd =>
       \A k \in RowKeys \cup DOMAIN raw \cup {KeyConversation} :
         k \in DOMAIN raw <=> (ItemTableValues(k) # {} \/ PatternsMatching(k) # {})

C12_Witness ==
  /\ AtScanEnd
  /\ db.failingPatterns # {}
  /\ db.failAfter > 0
  /\ \E j \in 1..Len(db.kvRows) :
       /\ \E p \in 1..Len(Patterns) :
            Patterns[p] \in db.failingPatterns /\ Like(Patterns[p], db.kvRows[j].key.s)
       /\ db.kvRows[j].key.s \notin DOMAIN raw
  /\ \E k \in DOMAIN raw : \E p \in PatternsMatching(k) : p > 2

\* C13: when the query listing the tables throws, listTables returns the
\* empty list: extractConversation has tables = [], an empty raw map and no
\* message, and does not throw.
C13_ListingFailureIsNoTables ==
  ("listTables" \in db.failing /\ pc # "extractConversation") =>
    /\ tables = <<>>
    /\ raw = <<>>
    /\ result = <<>>
    /\ pc # "thrown"

C13_Witness ==
  /\ pc = "done"
  /\ "listTables" \in db.failing
  /\ db.tables # <<>>
  /\ Len(db.itemRows) + Len(db.kvRows) > 0
  /\ tables = <<>>



\* The ItemTable phase has just ended.
AfterItemTable == pc = "cursorDiskKV" /\ patternIndex = 1

\* The keys of the rows the read of ItemTable returned.
ItemKeysRead == {ItemRowsRead[i].key.s : i \in 1..Len(ItemRowsRead)}

\* The fixed substrings, lower-cased.
FixedSubstrings ==
  { <<"a", "i", "s", "e", "r", "v", "i", "c", "e", ".", "g", "e", "n", "e", "r", "a", "t", "i", "o", "n", "s">>,
    <<"a", "i", "s", "e", "r", "v", "i", "c", "e", ".", "p", "r", "o", "m", "p", "t", "s">>,
    <<"c", "o", "m", "p", "o", "s", "e", "r", ".", "c", "o", "m", "p", "o", "s", "e", "r", "d", "a", "t", "a">>,
    <<"c", "o", "m", "p", "o", "s", "e", "r", "d", "a", "t", "a">>,
    <<"c", "h", "a", "t">>,
    <<"c", "o", "n", "v", "e", "r", "s", "a", "t", "i", "o", "n">> }

ContainsFixedSubstring(k) ==
  \E sub \in FixedSubstrings :
    \E i \in 0..(Len(k) - Len(sub)) :
      \A j \in 1..Len(sub) : LowerChar(k[i + j]) = sub[j]

\* C16: after the ItemTable phase the key of a row read from ItemTable is a
\* key of the raw map exactly when its lower-cased form contains one of the
\* fixed substrings, and the only key of the raw map that is not the key of
\* such a row is the synthetic key conversation.
C16_ItemTableKeyFilter ==
  AfterItemTable =>
    /\ \A k \in ItemKeysRead : k \in DOMAIN raw <=> ContainsFixedSubstring(k)
    /\ \A k \in DOMAIN raw : k \in ItemKeysRead \/ k = KeyConversation

C16_Witness ==
  /\ AfterItemTable
  /\ KeyTheme \in ItemKeysRead /\ KeyTheme \notin DOMAIN raw
  /\ KeyPanelChat \in DOMAIN raw
  /\ KeyConversation \in DOMAIN raw /\ KeyConversation \notin ItemKeysRead


\* Row i of the rows read from ItemTable has the key composer.composerData
\* and an object with a conversation property as its decoded value.
Flattens(i) ==
  /\ ItemRowsRead[i].key.s = KeyComposerData
  /\ decodeValue(ItemRowsRead[i].value).t = "object"
  /\ KeyConversation \in DOMAIN decodeValue(ItemRowsRead[i].value).props

\* The conversation property of the decoded value of row i.
Nested(i) == decodeValue(ItemRowsRead[i].value).props[KeyConversation]

\* Row j writes raw["conversation"].
WritesConversation(j) == ItemRowsRead[j].key.s = KeyConversation \/ Flattens(j)

\* C17 as stated: whenever ItemTable holds a composer.composerData row whose
\* decoded value is an object with a conversation property, the raw map
\* returned holds that nested value under the key conversation, for every
\* order of the rows and whatever other rows exist.
C17_FlattenedConversationAlwaysKept ==
  AtScanEnd =>
    \A i \in 1..Len(ItemRowsRead) :
      Flattens(i) => RawGet(raw, KeyConversation) = Nested(i)

\* C17 (amended): the raw map holds the nested value under the key
\* conversation provided no later row of ItemTable writes that key (a row
\* whose own key is conversation, or another composer.composerData row with
\* a conversation property), whatever rows precede and whatever cursorDiskKV
\* holds.
C17_FlattenedConversationKeptUnlessRewritten ==
  AtScanEnd =>
    \A i \in 1..Len(ItemRowsRead) :
      (Flattens(i) /\ \A j \in (i + 1)..Len(ItemRowsRead) : ~WritesConversation(j))
        => RawGet(raw, KeyConversation) = Nested(i)

C17_Witness ==
  /\ AtScanEnd
  /\ \E i \in 2..Len(ItemRowsRead) :
       /\ Flattens(i)
       /\ \A j \in (i + 1)..Len(ItemRowsRead) : ~WritesConversation(j)
       /\ ItemRowsRead[i - 1].key.s = KeyConversation
       /\ decodeValue(ItemRowsRead[i - 1].value) # Nested(i)
       /\ RawGet(raw, KeyConversation) = Nested(i)
  /\ \E j \in 1..Len(db.kvRows) :
       /\ db.kvRows[j].key.s = KeyConversation
       /\ decodeValue(db.kvRows[j].value) # RawGet(raw, KeyConversation)
  /\ PatternsMatching(KeyConversation) # {}

\* C25: when selectKeyValue or selectKeyValueWithPattern has returned, every
\* statement it prepared has been released with stmt.free(), also when
\* bind, step, get or the decoding of a row threw and the function returned
\* the empty list.
C25_StatementsReleased == stmts.freed = stmts.prepared

(***************************************************************************)
(* Properties of the callers (checked under HostSpec).                     *)
(***************************************************************************)
\* C14: extractConversation never closes the database, and a caller that
\* loaded it calls db.close() exactly once, after extractConversation has
\* returned or thrown and before it answers, on both paths; a caller that
\* did not load it never calls db.close().
C14_CloseExactlyOnce ==
  /\ hostPc = "extractConversation" => closeCalls = 0
  /\ closeCalls > 0 => (loaded /\ pc \in {"done", "thrown"})
  /\ (loaded /\ response # NoResponse) => closeCalls = 1
  /\ (loaded /\ hostPc \in {"closed", "responded"}) => closeCalls = 1
  /\ closeCalls <= 1

C14_Witness ==
  /\ hostPc = "responded"
  /\ loaded
  /\ pc = "thrown"
  /\ closeCalls = 1
  /\ response.error = "Failed to extract conversation"


\* The first check of the POST route the request fails: 0 when it passes
\* all three.
FirstFailedCheck ==
  IF upload.file # "file" THEN 1
  ELSE IF upload.name = <<"s", ".", "d", "b">> THEN 2
  ELSE IF upload.byteLength = 0 THEN 3
  ELSE 0

\* C30: the POST route calls loadDatabase only for a request that passed the
\* checks of the file part, of the name and of the byte length; a request
\* failing one is answered with status 400 and the message of the first
\* check it fails, and nothing is loaded; a failure of loadDatabase or of
\* extractConversation is answered with status 500; only the success path
\* returns a result.
C30_PostValidation ==
  handler = "POST" =>
    /\ (loaded \/ hostPc \in {"loadDatabase", "extractConversation", "closed"})
         => FirstFailedCheck = 0
    /\ hostPc = "responded" =>
         /\ FirstFailedCheck # 0 =>
              /\ response.status = 400
              /\ ~loaded /\ pc = "idle" /\ closeCalls = 0
              /\ response.error =
                   <<"Missing .vscdb file in request",
                     "Upload must be a .vscdb or .vscdb.backup file",
                     "Uploaded file is empty">>[FirstFailedCheck]
         /\ (FirstFailedCheck = 0 /\ ~loaded) =>
              response = JsonResponse(500, "Failed to load database")
         /\ (loaded /\ pc = "thrown") =>
              response = JsonResponse(500, "Failed to extract conversation")
         /\ response.hasResult <=> (FirstFailedCheck = 0 /\ loaded /\ pc = "done")
         /\ response.hasResult <=> response.status = 200

\* An empty file with a wrong name is refused for its name.
C30_Witness ==
  /\ handler = "POST"
  /\ hostPc = "responded"
  /\ upload.file = "file"
  /\ upload.name = <<"s", ".", "d", "b">>
  /\ upload.byteLength = 0
  /\ response.status = 400
  /\ response.error = "Upload must be a .vscdb or .vscdb.backup file"

(***************************************************************************)
(* Properties of the decoder (checked under DecoderSpec).                  *)
(***************************************************************************)
\* A string that is the JSON text of a string literal.
IsJsonStringLiteral(x) ==
  /\ x.t \in {"text", "string"}
  /\ Len(StripJsonWhiteSpace(x.s, FALSE)) >= 2
  /\ StartsWith(StripJsonWhiteSpace(x.s, FALSE), "\"")
  /\ EndsWith(StripJsonWhiteSpace(x.s, FALSE), "\"")

\* C15: for every input other than a string that is the JSON text of a
\* string literal, decoding the decoded value returns it unchanged.
C15_DecoderIdempotent ==
  (pc = "decodedAgain" /\ ~IsJsonStringLiteral(cell)) => decodedTwice = decodedOnce

C15_Witness ==
  /\ pc = "decodedAgain"
  /\ cell.t = "blob"
  /\ decodedOnce.t = "object"
  /\ KeyConversation \in DOMAIN decodedOnce.props
  /\ decodedTwice = decodedOnce

\* The first and the last character of the text that are not white space
\* are open and close.
Enclosed(text, open, close) ==
  \E i \in 1..Len(text) : \E j \in i..Len(text) :
    /\ text[i] = open /\ text[j] = close
    /\ \A k \in 1..Len(text) : (k < i \/ k > j) => text[k] \in WhiteSpace

\* C24: decodeValue returns null for null and undefined; a blob is decoded
\* to its text and treated as text; a text enclosed in braces or brackets
\* (white space around them aside) gives the parsed structure when it
\* parses and the text itself, untrimmed, when it does not; any other text
\* and any value of another type is returned unchanged; nothing is raised.
C24_DecoderContract ==
  pc \in {"decoded", "decodedAgain"} =>
    /\ cell.t \in {"null", "undefined"} => decodedOnce = NullValue
    /\ cell.t \in {"blob", "text", "string"} =>
         IF /\ Enclosed(cell.s, "{", "}") \/ Enclosed(cell.s, "[", "]")
            /\ JsonParse(cell.s).ok
         THEN decodedOnce = JsonParse(cell.s).value
         ELSE decodedOnce = StringValue(cell.s)
    /\ cell.t = "number" => decodedOnce = NumberValue(cell.n)
    /\ cell.t \in {"array", "object"} => decodedOnce = cell

\* A blob whose text is enclosed in brackets after trimming and does not
\* parse: the text comes back with its white space.
C24_Witness ==
  /\ pc = "decoded"
  /\ cell.t = "blob"
  /\ Enclosed(cell.s, "[", "]")
  /\ Trim(cell.s) # cell.s
  /\ decodedOnce = StringValue(cell.s)

(***************************************************************************)
(* Properties of the page (checked under PageSpec).                        *)
(***************************************************************************)
\* C29: whatever the sequence of change events and completions of
\* extractFile, result and error are never both non-null, and isExtracting
\* is false whenever no call of extractFile is in flight.
C29_PageStateConsistent ==
  /\ ~(pageResult # "null" /\ pageError # "null")
  /\ inFlight = <<>> => ~isExtracting

\* After a second change event an extraction has succeeded.
C29_Witness ==
  /\ events >= 2
  /\ inFlight = <<>>
  /\ pageResult # "null"
  /\ pageError = "null"
  /\ ~isExtracting

====
